---- MODULE Spec2Model ----
(***************************************************************************)
(* Verification model of scip-ts: the low-level solver handle (SCIP class  *)
(* of src/solver.ts with its Node subclass), the Model builder with its    *)
(* reformulation primitives (src/model/model.ts, bounds.ts), the MPS       *)
(* serializer (mps-format.ts) and Model.solve().                           *)
(*                                                                         *)
(* Numbers are integers.  A row of the model keeps a positive denominator  *)
(* `den`: the row stands for (terms, constant, rhs) / den, so that the     *)
(* non-integral epsilon 1e-6 of reify() is a rational 1/1000000.           *)
(***************************************************************************)
EXTENDS Integers, Sequences, FiniteSets, TLC

VARIABLES
    freed,        \* SCIP.freed
    engineLive,   \* the engine instance behind scipPtr has not been released
    loaded,       \* a problem has been read into the engine
    tmpFile,      \* /tmp/problem.<format> exists in the module's file system
    hlast,        \* the last call on the handle: what it did and how it ended
    variables,    \* Model.variables
    constraints,  \* Model.constraints
    varCounter,   \* Model.varCounter
    objective,    \* Model.objective: <<>> for null, <<e>> for the expression e
    modelSense,   \* Model.sense
    last,         \* the last call on the Model: operands, result, outcome
    run           \* the Model.solve() call in progress and the handle it created

hvars == <<freed, engineLive, loaded, tmpFile, hlast>>
mvars == <<variables, constraints, varCounter, objective, modelSense, last, run>>
vars == <<freed, engineLive, loaded, tmpFile, hlast,
          variables, constraints, varCounter, objective, modelSense, last, run>>

(***************************************************************************)
(* Bounds of the model                                                     *)
(***************************************************************************)
MaxStatusCode == 12    \* status codes tried: -1..MaxStatusCode
MaxUserVars == 2       \* variables the caller creates through the factories
MaxArgs == 3           \* operands passed to and() / or()
MaxTerms == 1          \* terms of an expression the caller passes in
MaxExprs == 2          \* expressions passed to max() / min()
MaxBoundTerms == 2     \* terms of an expression handed to exprBounds
MaxSolves == 2         \* calls of Model.solve()
MaxRows == 2           \* rows in the model when the caller adds one or applies a primitive

(***************************************************************************)
(* Part 1: the solver handle                                               *)
(***************************************************************************)
NoError == "none"
FreedError == "SCIP instance has been freed"
EngineFault == "engine fault"
FileReadError == "file read error"

StatusCodes == (-1)..MaxStatusCode

\* SCIP_STATUS_MAP[statusCode] ?? 'unknown'
SCIP_STATUS_MAP(code) ==
    CASE code = 0 -> "unknown"
      [] code = 1 -> "optimal"
      [] code = 2 -> "infeasible"
      [] code = 3 -> "unbounded"
      [] code = 4 -> "inforunbd"
      [] code = 5 -> "timelimit"
      [] code = 6 -> "nodelimit"
      [] code = 7 -> "stallnodelimit"
      [] code = 8 -> "gaplimit"
      [] code = 9 -> "sollimit"
      [] code = 10 -> "bestsollimit"
      [] code = 11 -> "restartlimit"
      [] OTHER -> "unknown"

SolutionStatuses == {"optimal", "timelimit", "gaplimit", "sollimit", "bestsollimit"}

NoResult == [status |-> "none", objective |-> FALSE, solution |-> FALSE]

\* What a call on the handle did: the engine/module functions it invoked in
\* order, whether it wrote the scratch file, the error it raised and the
\* SolveResult it returned (objective/solution: is the field present).
Outcome(op, wasFreed, calls, wrote, err, result) ==
    [op |-> op, wasFreed |-> wasFreed, calls |-> calls, wrote |-> wrote,
     err |-> err, result |-> result, code |-> 0]

\* ensureNotFreed(): the error it throws, if any
ensureNotFreed(isFreed) == IF isFreed THEN FreedError ELSE NoError

\* free() of the first listing without its early return
FreeCalls_noguard(isFreed, faults) ==
    IF "_malloc" \in faults THEN <<"_malloc">>
    ELSE <<"_malloc">>
         \o (IF "setValue" \in faults THEN <<"setValue">> ELSE <<"setValue", "SCIPfree">>)
         \o <<"_free">>

\* free(): the module functions it invokes, given the set of those that throw
FreeCalls(isFreed, faults) ==
    IF isFreed THEN <<>>
    ELSE IF "_malloc" \in faults THEN <<"_malloc">>
    ELSE <<"_malloc">>
         \o (IF "setValue" \in faults THEN <<"setValue">> ELSE <<"setValue", "SCIPfree">>)
         \o <<"_free">>

\* free(): the error that leaves it.  _malloc is called before the try block;
\* setValue and SCIPfree are inside try/catch, _free inside its own try/catch.
FreeError(isFreed, faults) ==
    IF isFreed THEN NoError
    ELSE IF "_malloc" \in faults THEN EngineFault
    ELSE NoError

FreeFaults == SUBSET {"_malloc", "setValue", "SCIPfree", "_free"}

\* free(): what it does to the handle
FreeBody(faults) ==
    LET calls == FreeCalls(freed, faults)
        ran == \E i \in 1..Len(calls) : calls[i] = "SCIPfree"
    IN /\ freed' = TRUE
       /\ engineLive' = (engineLive /\ ~(ran /\ "SCIPfree" \notin faults))
       /\ hlast' = Outcome("free", freed, calls, FALSE, FreeError(freed, faults), NoResult)
       /\ UNCHANGED <<loaded, tmpFile>>

Free(faults) ==
    /\ FreeBody(faults)
    /\ UNCHANGED mvars

ParseFaults == SUBSET {"writeFile", "SCIPreadProb", "unlink"}

\* parse(content, format): ensureNotFreed, FS.writeFile, then SCIPreadProb
\* inside try, FS.unlink in finally with its own errors ignored.
ParseBody(op, faults) ==
    LET guard == ensureNotFreed(freed)
    IN IF guard # NoError
       THEN /\ hlast' = Outcome(op, freed, <<>>, FALSE, guard, NoResult)
            /\ UNCHANGED <<freed, engineLive, loaded, tmpFile>>
       ELSE IF "writeFile" \in faults
       THEN /\ hlast' = Outcome(op, freed, <<"writeFile">>, FALSE, EngineFault, NoResult)
            /\ UNCHANGED <<freed, engineLive, loaded, tmpFile>>
       ELSE /\ hlast' = Outcome(op, freed, <<"writeFile", "SCIPreadProb", "unlink">>, TRUE,
                                IF "SCIPreadProb" \in faults THEN EngineFault ELSE NoError,
                                NoResult)
            /\ loaded' = (loaded \/ "SCIPreadProb" \notin faults)
            /\ tmpFile' = ("unlink" \in faults)
            /\ UNCHANGED <<freed, engineLive>>

Parse(faults) ==
    /\ ParseBody("parse", faults)
    /\ UNCHANGED mvars

\* readProblem(path) of the Node subclass: readFileSync, then parse
ReadProblem(readable, faults) ==
    /\ IF ~readable
       THEN /\ hlast' = Outcome("readProblem", freed, <<>>, FALSE, FileReadError, NoResult)
            /\ UNCHANGED <<freed, engineLive, loaded, tmpFile>>
       ELSE ParseBody("readProblem", faults)
    /\ UNCHANGED mvars

ParamKinds == {"boolean", "string", "integer", "real"}

SetParamCall(kind) ==
    CASE kind = "boolean" -> "SCIPsetBoolParam"
      [] kind = "string" -> "SCIPsetStringParam"
      [] kind = "integer" -> "SCIPsetIntParam"
      [] OTHER -> "SCIPsetRealParam"

\* setParam(name, value)
SetParam(kind, fault) ==
    LET guard == ensureNotFreed(freed)
    IN /\ IF guard # NoError
          THEN hlast' = Outcome("setParam", freed, <<>>, FALSE, guard, NoResult)
          ELSE hlast' = Outcome("setParam", freed, <<SetParamCall(kind)>>, FALSE,
                                IF fault THEN EngineFault ELSE NoError, NoResult)
       /\ UNCHANGED <<freed, engineLive, loaded, tmpFile>>
       /\ UNCHANGED mvars

Range(q) == {q[i] : i \in 1..Len(q)}

SolveSteps == <<"SCIPsolve", "SCIPgetStatus", "SCIPgetBestSol", "SCIPgetSolOrigObj", "extractSolution">>

\* the engine functions solve() reaches for a status code and a best-solution pointer
SolvePlan(statusCode, solPtr) ==
    IF SCIP_STATUS_MAP(statusCode) \in SolutionStatuses
    THEN IF solPtr # 0 THEN SolveSteps ELSE SubSeq(SolveSteps, 1, 3)
    ELSE SubSeq(SolveSteps, 1, 2)

\* index of the first planned call that throws, 0 when none does
FirstFault(plan, faults) ==
    IF \E i \in 1..Len(plan) : plan[i] \in faults
    THEN CHOOSE i \in 1..Len(plan) :
            /\ plan[i] \in faults
            /\ \A j \in 1..(i - 1) : plan[j] \notin faults
    ELSE 0

\* solve() with the objective read whenever the status is a solution status
SolveResult_nosolcheck(statusCode, solPtr) ==
    LET status == SCIP_STATUS_MAP(statusCode)
    IN [status |-> status,
        objective |-> (status \in SolutionStatuses),
        solution |-> (status \in SolutionStatuses /\ solPtr # 0)]

\* the SolveResult solve() builds when no engine call throws
SolveResult(statusCode, solPtr) ==
    LET status == SCIP_STATUS_MAP(statusCode)
        found == status \in SolutionStatuses /\ solPtr # 0
    IN [status |-> status, objective |-> found, solution |-> found]

SolveFaults == SUBSET Range(SolveSteps)

\* solve(): what it does to the handle
SolveBody(statusCode, solPtr, faults) ==
    LET guard == ensureNotFreed(freed)
        plan == SolvePlan(statusCode, solPtr)
        k == FirstFault(plan, faults)
    IN /\ IF guard # NoError
          THEN hlast' = Outcome("solve", freed, <<>>, FALSE, guard, NoResult)
          ELSE IF k # 0
          THEN hlast' = Outcome("solve", freed, SubSeq(plan, 1, k), FALSE, EngineFault, NoResult)
          ELSE hlast' = [Outcome("solve", freed, plan, FALSE, NoError,
                                 SolveResult(statusCode, solPtr))
                         EXCEPT !.code = statusCode]
       /\ UNCHANGED <<freed, engineLive, loaded, tmpFile>>

\* solve()
Solve(statusCode, solPtr, faults) ==
    /\ SolveBody(statusCode, solPtr, faults)
    /\ UNCHANGED mvars

HandleInit ==
    /\ freed = FALSE
    /\ engineLive = TRUE
    /\ loaded = FALSE
    /\ tmpFile = FALSE
    /\ hlast = Outcome("create", FALSE, <<"_malloc", "SCIPcreate", "getValue",
                                        "SCIPincludeDefaultPlugins", "_free">>,
                       FALSE, NoError, NoResult)

NoName == "<undefined>"
ZeroExpr == [terms |-> <<>>, constant |-> 0]
NoConstraint == [expr |-> ZeroExpr, sense |-> "none", rhs |-> 0, name |-> NoName, den |-> 1, obj |-> 0]
NoCall == [op |-> "new", vs |-> <<>>, es |-> <<>>, nums |-> <<>>, cs |-> <<>>, c |-> NoConstraint,
           opt |-> "none", ret |-> 0, ret2 |-> 0,
           nv |-> 0, nc |-> 0, ctr |-> 0, err |-> NoError]

\* no Model.solve() call has been made: no handle exists, nothing was called on one
NoRun == [pc |-> "idle", created |-> FALSE, calls |-> <<>>,
          result |-> NoResult, settled |-> "none", solves |-> 0]

ModelIdle ==
    /\ variables = <<>>
    /\ constraints = <<>>
    /\ varCounter = 0
    /\ objective = <<>>
    /\ modelSense = "minimize"
    /\ last = NoCall
    /\ run = NoRun

InitHandle == HandleInit /\ ModelIdle

NextHandle ==
    \/ \E f \in FreeFaults : Free(f)
    \/ \E f \in ParseFaults : Parse(f)
    \/ \E r \in BOOLEAN, f \in ParseFaults : ReadProblem(r, f)
    \/ \E k \in ParamKinds, f \in BOOLEAN : SetParam(k, f)
    \/ \E c \in StatusCodes, p \in {0, 1}, f \in SolveFaults : Solve(c, p, f)

SpecHandle == InitHandle /\ [][NextHandle]_vars

(***************************************************************************)
(* Part 2: the Model builder                                               *)
(*                                                                         *)
(* A variable is identified by its position in Model.variables.  A linear  *)
(* expression is an ordered sequence of terms plus a constant.             *)
(***************************************************************************)
Infinity == 2000000000
NegInfinity == -Infinity
NaN == Infinity + 1
Undefined == Infinity + 2      \* an option that was not passed

IsFinite(x) == x # Infinity /\ x # NegInfinity /\ x # NaN

\* IEEE product and sum on the extended numbers
NumMul(a, b) ==
    IF a = NaN \/ b = NaN THEN NaN
    ELSE IF IsFinite(a) /\ IsFinite(b) THEN a * b
    ELSE IF a = 0 \/ b = 0 THEN NaN
    ELSE IF (a > 0) = (b > 0) THEN Infinity ELSE NegInfinity

NumAdd(a, b) ==
    IF a = NaN \/ b = NaN THEN NaN
    ELSE IF IsFinite(a) /\ IsFinite(b) THEN a + b
    ELSE IF IsFinite(a) THEN b
    ELSE IF IsFinite(b) THEN a
    ELSE IF a = b THEN a ELSE NaN

Max2(a, b) == IF a >= b THEN a ELSE b

\* ---- Var / LinExpr / Constraint values and their combinators ----
Var(name, type, lb, ub) == [name |-> name, type |-> type, lb |-> lb, ub |-> ub]

Term(coeff, v) == [coeff |-> coeff, var |-> v]

\* v.times(k)
VarTimes(v, k) == [terms |-> <<Term(k, v)>>, constant |-> 0]

\* a Var used where an expression is expected
AsExpr(v) == VarTimes(v, 1)

\* e.times(k)
Times(e, k) ==
    [terms |-> [i \in 1..Len(e.terms) |-> Term(e.terms[i].coeff * k, e.terms[i].var)],
     constant |-> e.constant * k]

\* e.neg()
Neg(e) == Times(e, -1)

\* e1.plus(e2)
Plus(e1, e2) == [terms |-> e1.terms \o e2.terms, constant |-> e1.constant + e2.constant]

\* e1.minus(e2)
Minus(e1, e2) == Plus(e1, Neg(e2))

RECURSIVE Sum(_)
\* sum(...items)
Sum(es) == IF es = <<>> THEN ZeroExpr ELSE Plus(Sum(SubSeq(es, 1, Len(es) - 1)), es[Len(es)])

\* a Constraint object; obj tells the objects the caller holds apart (0: an object
\* only the primitive that made it ever held)
Row(e, sense, rhs) ==
    [expr |-> e, sense |-> sense, rhs |-> rhs, name |-> NoName, den |-> 1, obj |-> 0]
\* e.leq(rhs), e.geq(rhs), e.eq(rhs)
Leq(e, rhs) == Row(e, "<=", rhs)
Geq(e, rhs) == Row(e, ">=", rhs)
Eq(e, rhs) == Row(e, "=", rhs)

RECURSIVE EvalTerms(_, _)
EvalTerms(ts, val) ==
    IF ts = <<>> THEN 0
    ELSE EvalTerms(SubSeq(ts, 1, Len(ts) - 1), val) + ts[Len(ts)].coeff * val[ts[Len(ts)].var]

\* value of constant + sum coeff_i * variable_i under an assignment
Eval(e, val) == e.constant + EvalTerms(e.terms, val)

\* does the assignment satisfy the row expr <sense> rhs
Holds(c, val) ==
    CASE c.sense = "<=" -> Eval(c.expr, val) <= c.rhs
      [] c.sense = ">=" -> Eval(c.expr, val) >= c.rhs
      [] OTHER -> Eval(c.expr, val) = c.rhs

\* ---- bounds.ts ----
\* assertBinary(v, context): the error it throws, if any
assertBinary(v, context) ==
    IF v.type = "binary" \/ (v.type = "integer" /\ v.lb = 0 /\ v.ub = 1)
    THEN NoError
    ELSE context \o ": variable must be binary"

\* ---- the Model as a value: the fields a primitive reads and appends to ----
ModelOf(vs, cs, ctr) == [variables |-> vs, constraints |-> cs, varCounter |-> ctr]

Cur == ModelOf(variables, constraints, varCounter)

\* numVar / intVar / boolVar share: name ?? `x${varCounter++}`, push
newVar(m, type, lb, ub, name) ==
    IF name # NoName
    THEN [m EXCEPT !.variables = Append(@, Var(name, type, lb, ub))]
    ELSE [m EXCEPT !.variables = Append(@, Var("x" \o ToString(m.varCounter), type, lb, ub)),
                   !.varCounter = @ + 1]

numVar(m, lb, ub, name) == newVar(m, "continuous", lb, ub, name)
intVar(m, lb, ub, name) == newVar(m, "integer", lb, ub, name)
boolVar(m, name) == newVar(m, "binary", 0, 1, name)

\* the Var the last factory call on m returned
Newest(m) == Len(m.variables)

\* addConstraint(constraint, name)
\* constraint.name = name is an assignment to the object: every entry of the
\* list that is this same object shows the new name
Renamed(c, name) == IF name # NoName THEN [c EXCEPT !.name = name] ELSE c

\* mutant of addConstraint: the row is put in front of the list
addConstraint_front(m, c, name) ==
    [m EXCEPT !.constraints = <<Renamed(c, name)>> \o @]

addConstraint(m, c, name) ==
    [m EXCEPT !.constraints =
        Append([i \in 1..Len(@) |-> IF c.obj # 0 /\ @[i].obj = c.obj
                                     THEN Renamed(c, name) ELSE @[i]],
               Renamed(c, name))]

RECURSIVE addConstraints(_, _)
\* addConstraint for each row of a sequence, in order
addConstraints(m, rows) ==
    IF rows = <<>> THEN m
    ELSE addConstraint(addConstraints(m, SubSeq(rows, 1, Len(rows) - 1)), rows[Len(rows)], NoName)

\* what a primitive hands back: the model it leaves, the Var it returns
\* (0 when it returns none or throws) and the error it throws
Done(m, ret) == [m |-> m, ret |-> ret, ret2 |-> 0, err |-> NoError]
Throw(m, err) == [m |-> m, ret |-> 0, ret2 |-> 0, err |-> err]

\* the first error assertBinary throws over the operands, in call order
FirstNonBinary(m, vs, context) ==
    IF \E i \in 1..Len(vs) : assertBinary(m.variables[vs[i]], context) # NoError
    THEN assertBinary(m.variables[vs[CHOOSE i \in 1..Len(vs) :
                /\ assertBinary(m.variables[vs[i]], context) # NoError
                /\ \A j \in 1..(i - 1) : assertBinary(m.variables[vs[j]], context) = NoError]],
            context)
    ELSE NoError

\* and() with the closing row z - sum(v) >= 1 - n left out
and_norow(m, vs) ==
    IF Len(vs) = 0 THEN Throw(m, "and() requires at least 1 variable")
    ELSE IF Len(vs) = 1 THEN Done(m, vs[1])
    ELSE IF FirstNonBinary(m, vs, "and()") # NoError
    THEN Throw(m, FirstNonBinary(m, vs, "and()"))
    ELSE LET m1 == boolVar(m, NoName)
             z == Newest(m1)
         IN Done(addConstraints(m1, [i \in 1..Len(vs) |-> Leq(Minus(AsExpr(z), AsExpr(vs[i])), 0)]), z)

\* and(...vars)
and(m, vs) ==
    IF Len(vs) = 0 THEN Throw(m, "and() requires at least 1 variable")
    ELSE IF Len(vs) = 1 THEN Done(m, vs[1])
    ELSE IF FirstNonBinary(m, vs, "and()") # NoError
    THEN Throw(m, FirstNonBinary(m, vs, "and()"))
    ELSE LET m1 == boolVar(m, NoName)
             z == Newest(m1)
             m2 == addConstraints(m1, [i \in 1..Len(vs) |-> Leq(Minus(AsExpr(z), AsExpr(vs[i])), 0)])
             negs == [i \in 1..Len(vs) |-> Neg(AsExpr(vs[i]))]
         IN Done(addConstraint(m2, Geq(Sum(<<AsExpr(z)>> \o negs), 1 - Len(vs)), NoName), z)

\* or() with the per-operand rows written z - v <= 0
or_leq(m, vs) ==
    IF Len(vs) = 0 THEN Throw(m, "or() requires at least 1 variable")
    ELSE IF Len(vs) = 1 THEN Done(m, vs[1])
    ELSE IF FirstNonBinary(m, vs, "or()") # NoError
    THEN Throw(m, FirstNonBinary(m, vs, "or()"))
    ELSE LET m1 == boolVar(m, NoName)
             z == Newest(m1)
             m2 == addConstraints(m1, [i \in 1..Len(vs) |-> Leq(Minus(AsExpr(z), AsExpr(vs[i])), 0)])
         IN Done(addConstraint(m2, Geq(Minus(Sum([i \in 1..Len(vs) |-> AsExpr(vs[i])]), AsExpr(z)), 0),
                               NoName), z)

\* or(...vars)
or(m, vs) ==
    IF Len(vs) = 0 THEN Throw(m, "or() requires at least 1 variable")
    ELSE IF Len(vs) = 1 THEN Done(m, vs[1])
    ELSE IF FirstNonBinary(m, vs, "or()") # NoError
    THEN Throw(m, FirstNonBinary(m, vs, "or()"))
    ELSE LET m1 == boolVar(m, NoName)
             z == Newest(m1)
             m2 == addConstraints(m1, [i \in 1..Len(vs) |-> Geq(Minus(AsExpr(z), AsExpr(vs[i])), 0)])
         IN Done(addConstraint(m2, Geq(Minus(Sum([i \in 1..Len(vs) |-> AsExpr(vs[i])]), AsExpr(z)), 0),
                               NoName), z)

\* xor() whose compact row reads z - x - y + w = 0
xor_coeff(m, x, y, method) ==
    IF assertBinary(m.variables[x], "xor()") # NoError
    THEN Throw(m, assertBinary(m.variables[x], "xor()"))
    ELSE IF assertBinary(m.variables[y], "xor()") # NoError
    THEN Throw(m, assertBinary(m.variables[y], "xor()"))
    ELSE LET m1 == boolVar(m, NoName)
             z == Newest(m1)
         IN IF method = "compact"
            THEN LET r == and(m1, <<x, y>>)
                 IN Done(addConstraint(r.m,
                            Eq(Plus(Minus(Minus(AsExpr(z), AsExpr(x)), AsExpr(y)), VarTimes(r.ret, 1)), 0),
                            NoName), z)
            ELSE Done(addConstraints(m1, <<
                        Leq(Minus(Minus(AsExpr(z), AsExpr(x)), AsExpr(y)), 0),
                        Geq(Plus(Minus(AsExpr(z), AsExpr(x)), AsExpr(y)), 0),
                        Geq(Minus(Plus(AsExpr(z), AsExpr(x)), AsExpr(y)), 0),
                        Leq(Plus(Plus(AsExpr(z), AsExpr(x)), AsExpr(y)), 1)>>), z)

\* xor(x, y, options)
xor(m, x, y, method) ==
    IF assertBinary(m.variables[x], "xor()") # NoError
    THEN Throw(m, assertBinary(m.variables[x], "xor()"))
    ELSE IF assertBinary(m.variables[y], "xor()") # NoError
    THEN Throw(m, assertBinary(m.variables[y], "xor()"))
    ELSE LET m1 == boolVar(m, NoName)
             z == Newest(m1)
         IN IF method = "compact"
            THEN LET r == and(m1, <<x, y>>)
                 IN Done(addConstraint(r.m,
                            Eq(Plus(Minus(Minus(AsExpr(z), AsExpr(x)), AsExpr(y)), VarTimes(r.ret, 2)), 0),
                            NoName), z)
            ELSE Done(addConstraints(m1, <<
                        Leq(Minus(Minus(AsExpr(z), AsExpr(x)), AsExpr(y)), 0),
                        Geq(Plus(Minus(AsExpr(z), AsExpr(x)), AsExpr(y)), 0),
                        Geq(Minus(Plus(AsExpr(z), AsExpr(x)), AsExpr(y)), 0),
                        Leq(Plus(Plus(AsExpr(z), AsExpr(x)), AsExpr(y)), 2)>>), z)

\* ---- automatic Big-M: exprBounds, finiteBounds, computeBigM ----
RECURSIVE TermBounds(_, _, _)
\* the loop of exprBounds over the terms, from the accumulator acc = (lb, ub)
TermBounds(vsAll, ts, acc) ==
    IF ts = <<>> THEN acc
    ELSE LET prev == TermBounds(vsAll, SubSeq(ts, 1, Len(ts) - 1), acc)
             t == ts[Len(ts)]
             v == vsAll[t.var]
         IN IF t.coeff > 0
            THEN [lb |-> NumAdd(prev.lb, NumMul(t.coeff, v.lb)),
                  ub |-> NumAdd(prev.ub, NumMul(t.coeff, v.ub))]
            ELSE [lb |-> NumAdd(prev.lb, NumMul(t.coeff, v.ub)),
                  ub |-> NumAdd(prev.ub, NumMul(t.coeff, v.lb))]

\* exprBounds(expr) for a LinExpr
\* mutant of exprBounds: the upper accumulator starts at 0 (let ub = 0)
exprBounds_ubzero(vsAll, e) == TermBounds(vsAll, e.terms, [lb |-> e.constant, ub |-> 0])

exprBounds(vsAll, e) == TermBounds(vsAll, e.terms, [lb |-> e.constant, ub |-> e.constant])

\* Number.isInteger(x)
IsInteger(x) == IsFinite(x) /\ x \in Int

\* isIntegral(expr) for a LinExpr
isIntegral(vsAll, e) ==
    /\ IsInteger(e.constant)
    /\ \A i \in 1..Len(e.terms) :
          /\ vsAll[e.terms[i].var].type \in {"integer", "binary"}
          /\ IsInteger(e.terms[i].coeff)

\* the check finiteBounds makes on the bounds b it computed
FiniteOrError(b, context) ==
    IF ~IsFinite(b.lb) \/ ~IsFinite(b.ub)
    THEN [lb |-> b.lb, ub |-> b.ub,
          err |-> context \o ": cannot auto-compute Big-M because expression has infinite bounds"]
    ELSE [lb |-> b.lb, ub |-> b.ub, err |-> NoError]

\* finiteBounds(expr, context): the bounds, or the error it throws
finiteBounds(m, e, context) == FiniteOrError(exprBounds(m.variables, e), context)

\* computeBigM with the two senses exchanged
computeBigM_swapped(m, e, rhs, sense, context) ==
    LET b == finiteBounds(m, e, context)
    IN [M |-> IF sense = "<=" THEN rhs - b.lb ELSE b.ub - rhs, err |-> b.err]

\* computeBigM(expr, rhs, sense, context)
computeBigM(m, e, rhs, sense, context) ==
    LET b == finiteBounds(m, e, context)
    IN [M |-> IF sense = "<=" THEN b.ub - rhs ELSE rhs - b.lb, err |-> b.err]

\* options of addIndicator / reify; Undefined and NoEps are options not passed
NoEps == [num |-> 0, den |-> 1]
Options(active, bigM, epsilon) == [active |-> active, bigM |-> bigM, epsilon |-> epsilon]

\* the `<=` block of addIndicator
IndicatorLeq(m, delta, c, opt) ==
    LET auto == IF opt.bigM # Undefined THEN [M |-> opt.bigM, err |-> NoError]
                ELSE computeBigM(m, c.expr, c.rhs, "<=", "addIndicator()")
        active == IF opt.active # Undefined THEN opt.active ELSE 1
    IN IF auto.err # NoError THEN Throw(m, auto.err)
       ELSE IF active = 1
       THEN Done(addConstraint(m, Leq(Plus(c.expr, VarTimes(delta, auto.M)), c.rhs + auto.M), NoName), 0)
       ELSE Done(addConstraint(m, Leq(Minus(c.expr, VarTimes(delta, auto.M)), c.rhs), NoName), 0)

\* the `>=` block of addIndicator
IndicatorGeq(m, delta, c, opt) ==
    LET auto == IF opt.bigM # Undefined THEN [M |-> opt.bigM, err |-> NoError]
                ELSE computeBigM(m, c.expr, c.rhs, ">=", "addIndicator()")
        active == IF opt.active # Undefined THEN opt.active ELSE 1
    IN IF auto.err # NoError THEN Throw(m, auto.err)
       ELSE IF active = 1
       THEN Done(addConstraint(m, Geq(Minus(c.expr, VarTimes(delta, auto.M)), c.rhs - auto.M), NoName), 0)
       ELSE Done(addConstraint(m, Geq(Plus(c.expr, VarTimes(delta, auto.M)), c.rhs), NoName), 0)

\* addIndicator(delta, constraint, options)
addIndicator(m, delta, c, opt) ==
    IF assertBinary(m.variables[delta], "addIndicator()") # NoError
    THEN Throw(m, assertBinary(m.variables[delta], "addIndicator()"))
    ELSE LET r1 == IF c.sense \in {"<=", "="} THEN IndicatorLeq(m, delta, c, opt) ELSE Done(m, 0)
         IN IF r1.err # NoError THEN r1
            ELSE IF c.sense \in {">=", "="} THEN IndicatorGeq(r1.m, delta, c, opt) ELSE r1

\* ---- reification ----
\* defaultEpsilon(expr, rhs): 1 or 1e-6, as a fraction
defaultEpsilon(m, e, rhs) ==
    IF isIntegral(m.variables, e) /\ IsInteger(rhs)
    THEN [num |-> 1, den |-> 1]
    ELSE [num |-> 1, den |-> 1000000]

\* a row whose numbers are all multiplied by den
ScaledRow(e, sense, rhs, den) == [Row(e, sense, rhs) EXCEPT !.den = den]

\* the bounds reify works from: bigM around rhs, or finiteBounds
ReifyBounds(m, e, rhs, opt) ==
    IF opt.bigM # Undefined
    THEN [lb |-> (-opt.bigM) + rhs, ub |-> opt.bigM + rhs, err |-> NoError]
    ELSE finiteBounds(m, e, "reify()")

\* reifyLeqInternal whose second row omits epsilon: expr - delta*m >= rhs
reifyLeqInternal_noeps(m, e, rhs, opt) ==
    LET b == ReifyBounds(m, e, rhs, opt)
        M == b.ub - rhs
        mm == b.lb - rhs
        m1 == boolVar(m, NoName)
        delta == Newest(m1)
    IN IF b.err # NoError THEN Throw(m, b.err)
       ELSE Done(addConstraints(m1, <<
                Leq(Plus(e, VarTimes(delta, M)), rhs + M),
                Geq(Minus(e, VarTimes(delta, mm)), rhs)>>), delta)

\* reifyLeqInternal(expr, rhs, options)
reifyLeqInternal(m, e, rhs, opt) ==
    LET b == ReifyBounds(m, e, rhs, opt)
        M == b.ub - rhs
        mm == b.lb - rhs
        eps == IF opt.epsilon # NoEps THEN opt.epsilon ELSE defaultEpsilon(m, e, rhs)
        m1 == boolVar(m, NoName)
        delta == Newest(m1)
    IN IF b.err # NoError THEN Throw(m, b.err)
       ELSE Done(addConstraints(m1, <<
                Leq(Plus(e, VarTimes(delta, M)), rhs + M),
                ScaledRow(Minus(Times(e, eps.den), VarTimes(delta, eps.den * mm - eps.num)),
                          ">=", eps.den * rhs + eps.num, eps.den)>>), delta)

\* reifyEqInternal with M taken as ub - rhs alone
reifyEqInternal_mpos(m, e, rhs, opt) ==
    LET b == ReifyBounds(m, e, rhs, opt)
        M == b.ub - rhs
        eps == IF opt.epsilon # NoEps THEN opt.epsilon ELSE defaultEpsilon(m, e, rhs)
        Me == eps.den * M + eps.num
        m1 == boolVar(m, NoName)
        delta == Newest(m1)
        m2 == boolVar(m1, NoName)
        mu == Newest(m2)
    IN IF b.err # NoError THEN Throw(m, b.err)
       ELSE Done(addConstraints(m2, <<
                Leq(Plus(e, VarTimes(delta, M)), rhs + M),
                Geq(Minus(e, VarTimes(delta, M)), rhs - M),
                ScaledRow(Plus(Plus(Times(e, eps.den), VarTimes(delta, Me)), VarTimes(mu, Me)),
                          ">=", eps.den * rhs + eps.num, eps.den),
                ScaledRow(Plus(Minus(Times(e, eps.den), VarTimes(delta, Me)), VarTimes(mu, Me)),
                          "<=", eps.den * rhs - eps.num + Me, eps.den)>>), delta)

\* reifyEqInternal(expr, rhs, options)
reifyEqInternal(m, e, rhs, opt) ==
    LET b == ReifyBounds(m, e, rhs, opt)
        Mpos == b.ub - rhs
        Mneg == rhs - b.lb
        M == Max2(Mpos, Mneg)
        eps == IF opt.epsilon # NoEps THEN opt.epsilon ELSE defaultEpsilon(m, e, rhs)
        Me == eps.den * M + eps.num
        m1 == boolVar(m, NoName)
        delta == Newest(m1)
        m2 == boolVar(m1, NoName)
        mu == Newest(m2)
    IN IF b.err # NoError THEN Throw(m, b.err)
       ELSE Done(addConstraints(m2, <<
                Leq(Plus(e, VarTimes(delta, M)), rhs + M),
                Geq(Minus(e, VarTimes(delta, M)), rhs - M),
                ScaledRow(Plus(Plus(Times(e, eps.den), VarTimes(delta, Me)), VarTimes(mu, Me)),
                          ">=", eps.den * rhs + eps.num, eps.den),
                ScaledRow(Plus(Minus(Times(e, eps.den), VarTimes(delta, Me)), VarTimes(mu, Me)),
                          "<=", eps.den * rhs - eps.num + Me, eps.den)>>), delta)

\* reify(constraint, options)
reify(m, c, opt) ==
    IF c.sense = "<=" THEN reifyLeqInternal(m, c.expr, c.rhs, opt)
    ELSE IF c.sense = ">=" THEN reifyLeqInternal(m, Neg(c.expr), -c.rhs, opt)
    ELSE reifyEqInternal(m, c.expr, c.rhs, opt)

\* ---- the remaining logical primitives ----
\* isBinary(v) of model.ts
isBinary(v) == v.type = "binary" \/ (v.type = "integer" /\ v.lb = 0 /\ v.ub = 1)

\* not(x)
not(m, x) ==
    IF assertBinary(m.variables[x], "not()") # NoError
    THEN Throw(m, assertBinary(m.variables[x], "not()"))
    ELSE LET m1 == boolVar(m, NoName)
             z == Newest(m1)
         IN Done(addConstraint(m1, Eq(Plus(AsExpr(z), AsExpr(x)), 1), NoName), z)

\* addImplication(x, y)
addImplication(m, x, y) ==
    IF assertBinary(m.variables[x], "addImplication()") # NoError
    THEN Throw(m, assertBinary(m.variables[x], "addImplication()"))
    ELSE IF assertBinary(m.variables[y], "addImplication()") # NoError
    THEN Throw(m, assertBinary(m.variables[y], "addImplication()"))
    ELSE Done(addConstraint(m, Leq(Minus(AsExpr(x), AsExpr(y)), 0), NoName), 0)

\* the body shared by addAtMost, addAtLeast and addExactly
addCardinality(m, k, vs, sense, context) ==
    IF FirstNonBinary(m, vs, context) # NoError
    THEN Throw(m, FirstNonBinary(m, vs, context))
    ELSE Done(addConstraint(m, Row(Sum([i \in 1..Len(vs) |-> AsExpr(vs[i])]), sense, k), NoName), 0)

\* addAtMost(k, ...vars)
addAtMost(m, k, vs) == addCardinality(m, k, vs, "<=", "addAtMost()")

\* addAtLeast(k, ...vars)
addAtLeast(m, k, vs) == addCardinality(m, k, vs, ">=", "addAtLeast()")

\* addExactly(k, ...vars)
addExactly(m, k, vs) == addCardinality(m, k, vs, "=", "addExactly()")

\* ---- arithmetic primitives ----
\* an argument of type LinExpr | Var
VarItem(v) == [isVar |-> TRUE, var |-> v, expr |-> ZeroExpr]
ExprItem(e) == [isVar |-> FALSE, var |-> 0, expr |-> e]

\* expr instanceof Var ? expr.times(1) : expr
ItemExpr(it) == IF it.isVar THEN VarTimes(it.var, 1) ELSE it.expr

\* finiteBounds(v, context) for a Var: exprBounds returns the Var's own bounds
finiteBoundsOfVar(m, v, context) ==
    FiniteOrError([lb |-> m.variables[v].lb, ub |-> m.variables[v].ub], context)

\* options?.bigM != null ? { lb: -bigM, ub: bigM } : finiteBounds(e, context)
BigMBounds(m, e, opt, context) ==
    IF opt.bigM # Undefined
    THEN [lb |-> -opt.bigM, ub |-> opt.bigM, err |-> NoError]
    ELSE finiteBounds(m, e, context)

Min2(a, b) == IF a <= b THEN a ELSE b

\* abs() without the two rows that tie xPlus and xMinus to delta
abs_nodelta(m, it, opt) ==
    LET e == ItemExpr(it)
        b == BigMBounds(m, e, opt, "abs()")
        posMax == Max2(b.ub, 0)
        negMax == Max2(-b.lb, 0)
        m1 == numVar(m, 0, posMax, NoName)
        xPlus == Newest(m1)
        m2 == numVar(m1, 0, negMax, NoName)
        xMinus == Newest(m2)
        m3 == boolVar(m2, NoName)
        m4 == numVar(m3, 0, Max2(posMax, negMax), NoName)
        t == Newest(m4)
    IN IF b.err # NoError THEN Throw(m, b.err)
       ELSE Done(addConstraints(m4, <<
                Eq(Plus(Minus(e, AsExpr(xPlus)), AsExpr(xMinus)), 0),
                Eq(Minus(Plus(AsExpr(xPlus), AsExpr(xMinus)), AsExpr(t)), 0)>>), t)

\* abs(expr, options)
abs(m, it, opt) ==
    LET e == ItemExpr(it)
        b == BigMBounds(m, e, opt, "abs()")
        posMax == Max2(b.ub, 0)
        negMax == Max2(-b.lb, 0)
        m1 == numVar(m, 0, posMax, NoName)
        xPlus == Newest(m1)
        m2 == numVar(m1, 0, negMax, NoName)
        xMinus == Newest(m2)
        m3 == boolVar(m2, NoName)
        delta == Newest(m3)
        m4 == numVar(m3, 0, Max2(posMax, negMax), NoName)
        t == Newest(m4)
    IN IF b.err # NoError THEN Throw(m, b.err)
       ELSE Done(addConstraints(m4, <<
                Eq(Plus(Minus(e, AsExpr(xPlus)), AsExpr(xMinus)), 0),
                Eq(Minus(Plus(AsExpr(xPlus), AsExpr(xMinus)), AsExpr(t)), 0),
                Leq(Minus(AsExpr(xPlus), VarTimes(delta, posMax)), 0),
                Leq(Plus(AsExpr(xMinus), VarTimes(delta, negMax)), negMax)>>), t)

RECURSIVE boolVars(_, _)
\* es.map(() => this.boolVar()): n unnamed binaries, in order
boolVars(m, n) == IF n = 0 THEN m ELSE boolVar(boolVars(m, n - 1), NoName)

\* the bounds max() and min() collect over their operands, and the first error
ItemBounds(m, items, opt, context) ==
    [i \in 1..Len(items) |-> BigMBounds(m, ItemExpr(items[i]), opt, context)]

BoundsError(bs) ==
    IF \E i \in 1..Len(bs) : bs[i].err # NoError
    THEN bs[CHOOSE i \in 1..Len(bs) : bs[i].err # NoError].err
    ELSE NoError

\* Math.max(...xs) and Math.min(...xs) over a non-empty sequence
MaxOfSeq(xs) == CHOOSE x \in {xs[i] : i \in 1..Len(xs)} : \A j \in 1..Len(xs) : x >= xs[j]
MinOfSeq(xs) == CHOOSE x \in {xs[i] : i \in 1..Len(xs)} : \A j \in 1..Len(xs) : x <= xs[j]

\* max() / min() of a single expression: the Var itself, or a free t = e
SingleItem(m, it) ==
    IF it.isVar THEN Done(m, it.var)
    ELSE LET m1 == numVar(m, NegInfinity, Infinity, NoName)
             t == Newest(m1)
         IN Done(addConstraint(m1, Eq(Minus(it.expr, AsExpr(t)), 0), NoName), t)

\* max() with min()'s Big-M, M_i = ub_i - minLb
max_mirrorM(m, items, opt) ==
    IF Len(items) = 0 THEN Throw(m, "max() requires at least 1 expression")
    ELSE IF Len(items) = 1 THEN SingleItem(m, items[1])
    ELSE LET n == Len(items)
             es == [i \in 1..n |-> ItemExpr(items[i])]
             bounds == ItemBounds(m, items, opt, "max()")
             minLb == MinOfSeq([i \in 1..n |-> bounds[i].lb])
             maxUb == MaxOfSeq([i \in 1..n |-> bounds[i].ub])
             m1 == boolVars(m, n)
             deltas == [i \in 1..n |-> Len(m.variables) + i]
             m2 == numVar(m1, minLb, maxUb, NoName)
             t == Newest(m2)
             rows == [k \in 1..(2 * n) |->
                        LET i == (k + 1) \div 2
                            Mi == bounds[i].ub - minLb
                        IN IF k % 2 = 1
                           THEN Geq(Minus(AsExpr(t), es[i]), 0)
                           ELSE Leq(Plus(Minus(AsExpr(t), es[i]), VarTimes(deltas[i], Mi)), Mi)]
         IN IF BoundsError(bounds) # NoError THEN Throw(m, BoundsError(bounds))
            ELSE Done(addConstraint(addConstraints(m2, rows),
                                    Eq(Sum([i \in 1..n |-> AsExpr(deltas[i])]), 1), NoName), t)

\* max(exprs, options)
max(m, items, opt) ==
    IF Len(items) = 0 THEN Throw(m, "max() requires at least 1 expression")
    ELSE IF Len(items) = 1 THEN SingleItem(m, items[1])
    ELSE LET n == Len(items)
             es == [i \in 1..n |-> ItemExpr(items[i])]
             bounds == ItemBounds(m, items, opt, "max()")
             maxUb == MaxOfSeq([i \in 1..n |-> bounds[i].ub])
             minLb == MinOfSeq([i \in 1..n |-> bounds[i].lb])
             m1 == boolVars(m, n)
             deltas == [i \in 1..n |-> Len(m.variables) + i]
             m2 == numVar(m1, minLb, maxUb, NoName)
             t == Newest(m2)
             rows == [k \in 1..(2 * n) |->
                        LET i == (k + 1) \div 2
                            Mi == maxUb - bounds[i].lb
                        IN IF k % 2 = 1
                           THEN Geq(Minus(AsExpr(t), es[i]), 0)
                           ELSE Leq(Plus(Minus(AsExpr(t), es[i]), VarTimes(deltas[i], Mi)), Mi)]
         IN IF BoundsError(bounds) # NoError THEN Throw(m, BoundsError(bounds))
            ELSE Done(addConstraint(addConstraints(m2, rows),
                                    Eq(Sum([i \in 1..n |-> AsExpr(deltas[i])]), 1), NoName), t)

\* min() with max()'s Big-M, M_i = maxUb - lb_i
min_mirrorM(m, items, opt) ==
    IF Len(items) = 0 THEN Throw(m, "min() requires at least 1 expression")
    ELSE IF Len(items) = 1 THEN SingleItem(m, items[1])
    ELSE LET n == Len(items)
             es == [i \in 1..n |-> ItemExpr(items[i])]
             bounds == ItemBounds(m, items, opt, "min()")
             maxUb == MaxOfSeq([i \in 1..n |-> bounds[i].ub])
             minLb == MinOfSeq([i \in 1..n |-> bounds[i].lb])
             m1 == numVar(m, minLb, maxUb, NoName)
             t == Newest(m1)
             m2 == boolVars(m1, n)
             deltas == [i \in 1..n |-> Len(m1.variables) + i]
             rows == [k \in 1..(2 * n) |->
                        LET i == (k + 1) \div 2
                            Mi == maxUb - bounds[i].lb
                        IN IF k % 2 = 1
                           THEN Leq(Minus(AsExpr(t), es[i]), 0)
                           ELSE Geq(Minus(Minus(AsExpr(t), es[i]), VarTimes(deltas[i], Mi)), -Mi)]
         IN IF BoundsError(bounds) # NoError THEN Throw(m, BoundsError(bounds))
            ELSE Done(addConstraint(addConstraints(m2, rows),
                                    Eq(Sum([i \in 1..n |-> AsExpr(deltas[i])]), 1), NoName), t)

\* min(exprs, options)
min(m, items, opt) ==
    IF Len(items) = 0 THEN Throw(m, "min() requires at least 1 expression")
    ELSE IF Len(items) = 1 THEN SingleItem(m, items[1])
    ELSE LET n == Len(items)
             es == [i \in 1..n |-> ItemExpr(items[i])]
             bounds == ItemBounds(m, items, opt, "min()")
             maxUb == MaxOfSeq([i \in 1..n |-> bounds[i].ub])
             minLb == MinOfSeq([i \in 1..n |-> bounds[i].lb])
             m1 == numVar(m, minLb, maxUb, NoName)
             t == Newest(m1)
             m2 == boolVars(m1, n)
             deltas == [i \in 1..n |-> Len(m1.variables) + i]
             rows == [k \in 1..(2 * n) |->
                        LET i == (k + 1) \div 2
                            Mi == bounds[i].ub - minLb
                        IN IF k % 2 = 1
                           THEN Leq(Minus(AsExpr(t), es[i]), 0)
                           ELSE Geq(Minus(Minus(AsExpr(t), es[i]), VarTimes(deltas[i], Mi)), -Mi)]
         IN IF BoundsError(bounds) # NoError THEN Throw(m, BoundsError(bounds))
            ELSE Done(addConstraint(addConstraints(m2, rows),
                                    Eq(Sum([i \in 1..n |-> AsExpr(deltas[i])]), 1), NoName), t)

\* product() that takes the lower bound L of the non-binary operand as 0
product_zeroL(m, x, y, opt) ==
    LET xBin == isBinary(m.variables[x])
        yBin == isBinary(m.variables[y])
        delta == IF xBin THEN x ELSE y
        z == IF xBin THEN y ELSE x
        b == IF opt.bigM # Undefined
             THEN [lb |-> -opt.bigM, ub |-> opt.bigM, err |-> NoError]
             ELSE finiteBoundsOfVar(m, z, "product()")
        U == b.ub
        m1 == numVar(m, 0, Max2(U, 0), NoName)
        w == Newest(m1)
    IN IF xBin /\ yBin THEN and(m, <<x, y>>)
       ELSE IF ~xBin /\ ~yBin
       THEN Throw(m, "product() requires at least one binary variable")
       ELSE IF b.err # NoError THEN Throw(m, b.err)
       ELSE Done(addConstraints(m1, <<
                Leq(Minus(AsExpr(w), VarTimes(delta, U)), 0),
                Geq(AsExpr(w), 0),
                Leq(Minus(AsExpr(w), AsExpr(z)), 0),
                Geq(Minus(Minus(AsExpr(w), AsExpr(z)), VarTimes(delta, U)), -U)>>), w)

\* product(x, y, options)
product(m, x, y, opt) ==
    LET xBin == isBinary(m.variables[x])
        yBin == isBinary(m.variables[y])
        delta == IF xBin THEN x ELSE y
        z == IF xBin THEN y ELSE x
        b == IF opt.bigM # Undefined
             THEN [lb |-> -opt.bigM, ub |-> opt.bigM, err |-> NoError]
             ELSE finiteBoundsOfVar(m, z, "product()")
        L == b.lb
        U == b.ub
        m1 == numVar(m, Min2(L, 0), Max2(U, 0), NoName)
        w == Newest(m1)
    IN IF xBin /\ yBin THEN and(m, <<x, y>>)
       ELSE IF ~xBin /\ ~yBin
       THEN Throw(m, "product() requires at least one binary variable")
       ELSE IF b.err # NoError THEN Throw(m, b.err)
       ELSE Done(addConstraints(m1, <<
                Leq(Minus(AsExpr(w), VarTimes(delta, U)), 0),
                Geq(Minus(AsExpr(w), VarTimes(delta, L)), 0),
                Leq(Minus(Minus(AsExpr(w), AsExpr(z)), VarTimes(delta, L)), -L),
                Geq(Minus(Minus(AsExpr(w), AsExpr(z)), VarTimes(delta, U)), -U)>>), w)

\* semiContVar() without the row x - delta*lb >= 0
semiContVar_nolb(m, lb, ub, name) ==
    IF lb <= 0 \/ ub < lb THEN Throw(m, "semiContVar(): requires 0 < lb <= ub")
    ELSE LET m1 == numVar(m, 0, ub, name)
             x == Newest(m1)
             m2 == boolVar(m1, NoName)
             delta == Newest(m2)
         IN Done(addConstraints(m2, <<
                Leq(Minus(AsExpr(x), VarTimes(delta, ub)), 0)>>), x)

\* semiContVar(lb, ub, name)
semiContVar(m, lb, ub, name) ==
    IF lb <= 0 \/ ub < lb THEN Throw(m, "semiContVar(): requires 0 < lb <= ub")
    ELSE LET m1 == numVar(m, 0, ub, name)
             x == Newest(m1)
             m2 == boolVar(m1, NoName)
             delta == Newest(m2)
         IN Done(addConstraints(m2, <<
                Geq(Minus(AsExpr(x), VarTimes(delta, lb)), 0),
                Leq(Minus(AsExpr(x), VarTimes(delta, ub)), 0)>>), x)

\* what divMod hands back: quotient in ret, remainder in ret2
DoneDivMod(m, q, r) == [m |-> m, ret |-> q, ret2 |-> r, err |-> NoError]

\* divMod() whose remainder ranges over 0..d
divMod_rub(m, it, d) ==
    IF ~IsInteger(d) \/ d <= 0 THEN Throw(m, "divMod(): d must be a positive integer")
    ELSE LET e == ItemExpr(it)
             b == finiteBounds(m, e, "divMod()")
             m1 == intVar(m, 0, b.ub \div d, NoName)
             q == Newest(m1)
             m2 == intVar(m1, 0, d, NoName)
             r == Newest(m2)
         IN IF b.err # NoError THEN Throw(m, b.err)
            ELSE IF b.lb < 0 THEN Throw(m, "divMod(): expression must be non-negative")
            ELSE DoneDivMod(addConstraint(m2,
                    Eq(Minus(Minus(e, VarTimes(q, d)), AsExpr(r)), 0), NoName), q, r)

\* divMod(expr, d)
divMod(m, it, d) ==
    IF ~IsInteger(d) \/ d <= 0 THEN Throw(m, "divMod(): d must be a positive integer")
    ELSE LET e == ItemExpr(it)
             b == finiteBounds(m, e, "divMod()")
             m1 == intVar(m, 0, b.ub \div d, NoName)
             q == Newest(m1)
             m2 == intVar(m1, 0, d - 1, NoName)
             r == Newest(m2)
         IN IF b.err # NoError THEN Throw(m, b.err)
            ELSE IF b.lb < 0 THEN Throw(m, "divMod(): expression must be non-negative")
            ELSE DoneDivMod(addConstraint(m2,
                    Eq(Minus(Minus(e, VarTimes(q, d)), AsExpr(r)), 0), NoName), q, r)

\* addEitherOr() that passes active: 1 for both constraints
\* the second statement of addEitherOr, reached unless the first one threw (r1)
EitherOrSecond(r1, delta, c2, opt) ==
    IF r1.err # NoError THEN r1
    ELSE addIndicator(r1.m, delta, c2, Options(1, opt.bigM, NoEps))

\* addEitherOr() that passes active: 1 for both constraints
addEitherOr_sameactive(m, c1, c2, opt) ==
    EitherOrSecond(addIndicator(boolVar(m, NoName), Newest(boolVar(m, NoName)), c1,
                                Options(1, opt.bigM, NoEps)),
                   Newest(boolVar(m, NoName)), c2, opt)

\* addEitherOr(c1, c2, options)
addEitherOr(m, c1, c2, opt) ==
    EitherOrSecond(addIndicator(boolVar(m, NoName), Newest(boolVar(m, NoName)), c1,
                                Options(0, opt.bigM, NoEps)),
                   Newest(boolVar(m, NoName)), c2, opt)

\* ---- actions on the Model ----
\* a call ends: the model the primitive left becomes the Model's state; vs are
\* the Var operands, es the LinExpr | Var operands, nums the numeric arguments,
\* cs the Constraint operands (c is the first of them)
CommitCall(op, vs, es, nums, cs, opt, r) ==
    /\ variables' = r.m.variables
    /\ constraints' = r.m.constraints
    /\ varCounter' = r.m.varCounter
    /\ last' = [op |-> op, vs |-> vs, es |-> es, nums |-> nums, cs |-> cs,
                c |-> IF cs = <<>> THEN NoConstraint ELSE cs[1], opt |-> opt,
                ret |-> r.ret, ret2 |-> r.ret2,
                nv |-> Len(variables), nc |-> Len(constraints), ctr |-> varCounter,
                err |-> r.err]
    /\ UNCHANGED <<objective, modelSense, run>>
    /\ UNCHANGED hvars

Commit(op, vs, c, opt, r) ==
    CommitCall(op, vs, <<>>, <<>>, IF c = NoConstraint THEN <<>> ELSE <<c>>, opt, r)

\* the caller stops at the first error a call throws; its own variables are
\* created while the model is small
CanCreate == last.err = NoError /\ Len(variables) < MaxUserVars
\* a primitive is applied to a model that holds no row yet
CanApply == last.err = NoError /\ constraints = <<>> /\ Len(variables) <= MaxUserVars

NumVar(lb, ub, name) ==
    /\ CanCreate
    /\ LET m == numVar(Cur, lb, ub, name) IN Commit("numVar", <<>>, NoConstraint, "none", Done(m, Newest(m)))

IntVar(lb, ub, name) ==
    /\ CanCreate
    /\ LET m == intVar(Cur, lb, ub, name) IN Commit("intVar", <<>>, NoConstraint, "none", Done(m, Newest(m)))

BoolVar(name) ==
    /\ CanCreate
    /\ LET m == boolVar(Cur, name) IN Commit("boolVar", <<>>, NoConstraint, "none", Done(m, Newest(m)))

And(vs) == CanApply /\ Commit("and", vs, NoConstraint, "none", and(Cur, vs))

Or(vs) == CanApply /\ Commit("or", vs, NoConstraint, "none", or(Cur, vs))

Xor(x, y, method) ==
    CanApply /\ Commit("xor", <<x, y>>, NoConstraint, method, xor(Cur, x, y, method))

VarIds == 1..Len(variables)
ArgSeqs == UNION {[1..n -> VarIds] : n \in 0..MaxArgs}

AddIndicator(delta, c, opt) ==
    CanApply /\ Commit("addIndicator", <<delta>>, c, opt, addIndicator(Cur, delta, c, opt))

Reify(c, opt) == CanApply /\ Commit("reify", <<>>, c, opt, reify(Cur, c, opt))

Not(x) == CanApply /\ Commit("not", <<x>>, NoConstraint, "none", not(Cur, x))

AddImplication(x, y) ==
    CanApply /\ Commit("addImplication", <<x, y>>, NoConstraint, "none", addImplication(Cur, x, y))

AddAtMost(k, vs) ==
    CanApply /\ CommitCall("addAtMost", vs, <<>>, <<k>>, <<>>, "none", addAtMost(Cur, k, vs))

AddAtLeast(k, vs) ==
    CanApply /\ CommitCall("addAtLeast", vs, <<>>, <<k>>, <<>>, "none", addAtLeast(Cur, k, vs))

AddExactly(k, vs) ==
    CanApply /\ CommitCall("addExactly", vs, <<>>, <<k>>, <<>>, "none", addExactly(Cur, k, vs))

Abs(it, opt) == CanApply /\ CommitCall("abs", <<>>, <<it>>, <<>>, <<>>, opt, abs(Cur, it, opt))

Max(items, opt) == CanApply /\ CommitCall("max", <<>>, items, <<>>, <<>>, opt, max(Cur, items, opt))

Min(items, opt) == CanApply /\ CommitCall("min", <<>>, items, <<>>, <<>>, opt, min(Cur, items, opt))

Product(x, y, opt) ==
    CanApply /\ CommitCall("product", <<x, y>>, <<>>, <<>>, <<>>, opt, product(Cur, x, y, opt))

SemiContVar(lb, ub, name) ==
    CanApply /\ CommitCall("semiContVar", <<>>, <<>>, <<lb, ub>>, <<>>, "none",
                           semiContVar(Cur, lb, ub, name))

DivMod(it, d) ==
    CanApply /\ CommitCall("divMod", <<>>, <<it>>, <<d>>, <<>>, "none", divMod(Cur, it, d))

AddEitherOr(c1, c2, opt) ==
    CanApply /\ CommitCall("addEitherOr", <<>>, <<>>, <<>>, <<c1, c2>>, opt,
                           addEitherOr(Cur, c1, c2, opt))

\* the expressions and constraints a caller passes in
TermInputs == {Term(k, v) : k \in {-1, 2}, v \in VarIds}
ExprInputs ==
    {[terms |-> ts, constant |-> k] :
        ts \in UNION {[1..n -> TermInputs] : n \in 0..MaxTerms}, k \in {0, 1}}
ConstraintInputs ==
    {Row(e, sense, rhs) : e \in ExprInputs, sense \in {"<=", ">=", "="}, rhs \in {-2, 0, 1, 3}}

InitModel == HandleInit /\ ModelIdle

\* the logical primitives over binary and non-binary operands
NextLogic ==
    \/ BoolVar(NoName)
    \/ \E ub \in {1, 2} : IntVar(0, ub, NoName)
    \/ NumVar(0, 1, NoName)
    \/ CanApply /\ \E vs \in ArgSeqs : And(vs)
    \/ CanApply /\ \E vs \in ArgSeqs : Or(vs)
    \/ CanApply /\ \E x \in VarIds, y \in VarIds, method \in {"constraints", "compact"} :
                      Xor(x, y, method)

SpecLogic == InitModel /\ [][NextLogic]_vars

\* reification of constraints over bounded, unbounded, integer and continuous variables
NextReify ==
    \/ \E b \in {<<0, 2>>, <<-1, 1>>, <<0, Infinity>>} : IntVar(b[1], b[2], NoName)
    \/ NumVar(0, 2, NoName)
    \/ CanApply /\ \E c \in ConstraintInputs,
                      opt \in {Options(Undefined, Undefined, NoEps),
                                Options(Undefined, 4, NoEps),
                                Options(Undefined, Undefined, [num |-> 2, den |-> 1])} :
                        Reify(c, opt)

SpecReify == InitModel /\ [][NextReify]_vars

\* indicator constraints with either active value
NextIndicator ==
    \/ BoolVar(NoName)
    \/ IntVar(-1, 1, NoName)
    \/ \E ub \in {2, Infinity} : NumVar(0, ub, NoName)
    \/ CanApply /\ \E delta \in VarIds, c \in ConstraintInputs,
                      opt \in {Options(Undefined, Undefined, NoEps),
                                Options(0, Undefined, NoEps),
                                Options(1, Undefined, NoEps),
                                Options(Undefined, 4, NoEps)} :
                        AddIndicator(delta, c, opt)

SpecIndicator == InitModel /\ [][NextIndicator]_vars

\* one-term expressions and rows, and LinExpr | Var arguments
UnaryExprs == {[terms |-> <<t>>, constant |-> 0] : t \in TermInputs}
UnaryRows == {Row(e, sense, rhs) : e \in UnaryExprs, sense \in {"<=", ">=", "="}, rhs \in {0, 1}}
VarItems == {VarItem(v) : v \in VarIds}
ItemInputs ==
    VarItems \cup {ExprItem([terms |-> <<t>>, constant |-> k]) : t \in TermInputs, k \in {0, 1}}
\* the operands of max() / min(): a Var, or the LinExpr -v
MinMaxItems == VarItems \cup {ExprItem(VarTimes(v, -1)) : v \in VarIds}
ItemSeqs == UNION {[1..n -> MinMaxItems] : n \in 0..MaxExprs}
AutoBigM == Options(Undefined, Undefined, NoEps)
BigMInputs == {AutoBigM, Options(Undefined, 4, NoEps)}

\* abs, product, semiContVar and divMod over signed, binary and unbounded variables
NextArith ==
    \/ BoolVar(NoName)
    \/ \E b \in {<<0, 1>>, <<0, 2>>, <<-1, 1>>} : IntVar(b[1], b[2], NoName)
    \/ \E ub \in {2, Infinity} : NumVar(0, ub, NoName)
    \/ CanApply /\ \E it \in ItemInputs, opt \in BigMInputs : Abs(it, opt)
    \/ CanApply /\ \E x \in VarIds, y \in VarIds, opt \in BigMInputs : Product(x, y, opt)
    \/ CanApply /\ \E lb \in {0, 1, 2}, ub \in {1, 3} : SemiContVar(lb, ub, NoName)
    \/ CanApply /\ \E it \in ItemInputs, d \in {0, 2, 3, Infinity} : DivMod(it, d)

SpecArith == InitModel /\ [][NextArith]_vars

\* max and min over operands with different bound ranges
NextMinMax ==
    \/ \E b \in {<<0, 2>>, <<-1, 1>>} : IntVar(b[1], b[2], NoName)
    \/ NumVar(0, Infinity, NoName)
    \/ CanApply /\ \E items \in ItemSeqs, opt \in BigMInputs : Max(items, opt)
    \/ CanApply /\ \E items \in ItemSeqs, opt \in BigMInputs : Min(items, opt)

SpecMinMax == InitModel /\ [][NextMinMax]_vars

\* either-or over pairs of one-term rows
NextEitherOr ==
    \/ \E b \in {<<0, 2>>, <<-1, 1>>} : IntVar(b[1], b[2], NoName)
    \/ NumVar(0, Infinity, NoName)
    \/ CanApply /\ \E c1 \in UnaryRows, c2 \in UnaryRows, opt \in BigMInputs :
                      AddEitherOr(c1, c2, opt)

SpecEitherOr == InitModel /\ [][NextEitherOr]_vars

\* every reformulation primitive, over binary, integer and unbounded variables
LeqRows == {c \in UnaryRows : c.sense = "<=" /\ c.rhs = 1}

NextPrimitives ==
    \/ BoolVar(NoName)
    \/ \E ub \in {1, 2} : IntVar(0, ub, NoName)
    \/ NumVar(0, Infinity, NoName)
    \/ CanApply /\ \E vs \in ArgSeqs : And(vs)
    \/ CanApply /\ \E vs \in ArgSeqs : Or(vs)
    \/ CanApply /\ \E x \in VarIds : Not(x)
    \/ CanApply /\ \E x \in VarIds, y \in VarIds, method \in {"constraints", "compact"} :
                      Xor(x, y, method)
    \/ CanApply /\ \E x \in VarIds, y \in VarIds : AddImplication(x, y)
    \/ CanApply /\ \E vs \in ArgSeqs : AddAtMost(1, vs)
    \/ CanApply /\ \E vs \in ArgSeqs : AddAtLeast(1, vs)
    \/ CanApply /\ \E vs \in ArgSeqs : AddExactly(1, vs)
    \/ CanApply /\ \E delta \in VarIds, c \in UnaryRows, opt \in BigMInputs :
                      AddIndicator(delta, c, opt)
    \/ CanApply /\ \E it \in ItemInputs, opt \in BigMInputs : Abs(it, opt)
    \/ CanApply /\ \E items \in ItemSeqs, opt \in BigMInputs : Max(items, opt)
    \/ CanApply /\ \E items \in ItemSeqs, opt \in BigMInputs : Min(items, opt)
    \/ CanApply /\ \E x \in VarIds, y \in VarIds, opt \in BigMInputs : Product(x, y, opt)
    \/ CanApply /\ \E lb \in {0, 1, 2}, ub \in {1, 3} : SemiContVar(lb, ub, NoName)
    \/ CanApply /\ \E it \in ItemInputs, d \in {0, 2, Infinity} : DivMod(it, d)
    \/ CanApply /\ \E c1 \in UnaryRows, c2 \in LeqRows, opt \in BigMInputs :
                      AddEitherOr(c1, c2, opt)
    \/ CanApply /\ \E c \in UnaryRows, opt \in BigMInputs : Reify(c, opt)

SpecPrimitives == InitModel /\ [][NextPrimitives]_vars

(***************************************************************************)
(* Claims on the solver handle (checked under SpecHandle)                  *)
(***************************************************************************)

\* C1: free() on a handle that is already freed never raises and is a no-op:
\* it invokes no module function (no second SCIPfree) and leaves the handle
\* freed and every other part of the handle's state as it was.
C1_FreeIdempotent ==
    [][(freed /\ hlast'.op = "free")
         => /\ hlast'.err = NoError
            /\ hlast'.calls = <<>>
            /\ freed'
            /\ UNCHANGED <<engineLive, loaded, tmpFile>>]_vars

C1_Witness == hlast.op = "free" /\ hlast.wasFreed

\* C2: once free() has been called, every later parse(), solve(), setParam()
\* and readProblem() fails with 'SCIP instance has been freed' before any
\* engine call or file write.
C2_FreedHandleRejects ==
    (hlast.wasFreed /\ hlast.op \in {"parse", "solve", "setParam", "readProblem"})
        => /\ hlast.err = FreedError
           /\ hlast.calls = <<>>
           /\ ~hlast.wrote

\* The part of C2 the code does guarantee: parse, solve and setParam on a
\* freed handle raise the freed error first; readProblem makes no engine call
\* and writes nothing, and a freed handle stays freed.
FreedHandleUnusable ==
    /\ (hlast.wasFreed /\ hlast.op \in {"parse", "solve", "setParam"})
          => (hlast.err = FreedError /\ hlast.calls = <<>> /\ ~hlast.wrote)
    /\ (hlast.wasFreed /\ hlast.op = "readProblem")
          => (hlast.err \in {FreedError, FileReadError} /\ hlast.calls = <<>> /\ ~hlast.wrote)
    /\ (hlast.wasFreed => freed)

\* C3: free() never raises, whichever step of the teardown fails, and the
\* handle is freed afterwards.
C3_FreeNeverRaises ==
    hlast.op = "free" => (hlast.err = NoError /\ freed)

\* C4: in every result solve() returns, the objective is present iff the
\* solution map is present; both are absent unless the status is optimal,
\* timelimit, gaplimit, sollimit or bestsollimit; a status code outside 0..11
\* gives 'unknown' with neither field.
C4_ObjectiveIffSolution ==
    (hlast.op = "solve" /\ hlast.err = NoError)
        => /\ hlast.result.objective <=> hlast.result.solution
           /\ hlast.result.status \notin SolutionStatuses
                 => (~hlast.result.objective /\ ~hlast.result.solution)
           /\ hlast.code \notin 0..11
                 => hlast.result = [status |-> "unknown", objective |-> FALSE,
                                    solution |-> FALSE]

C4_Witness ==
    /\ hlast.op = "solve"
    /\ hlast.err = NoError
    /\ hlast.result.objective
    /\ hlast.result.solution

(***************************************************************************)
(* Feasible region of the rows a call appended                             *)
(***************************************************************************)
\* the integer points of a variable's [lb, ub]
DomOf(v) == v.lb..v.ub

\* the assignments of the variables in ids, each within its bounds
AssignmentsOf(allVars, ids) ==
    {f \in [ids -> UNION {DomOf(allVars[i]) : i \in ids}] :
        \A i \in ids : f[i] \in DomOf(allVars[i])}

AllHold(rows, val) == \A i \in 1..Len(rows) : Holds(rows[i], val)

\* the values of the returned variable for which the appended rows can be
\* satisfied, with the operands fixed by a and the other new variables free
FeasibleIn(m, nv, nc, ret, a) ==
    {rv \in DomOf(m.variables[ret]) :
        \E aux \in AssignmentsOf(m.variables, ((nv + 1)..Len(m.variables)) \ {ret}) :
            AllHold(SubSeq(m.constraints, nc + 1, Len(m.constraints)),
                    (ret :> rv) @@ aux @@ a)}

FeasibleRet(a) == FeasibleIn(Cur, last.nv, last.nc, last.ret, a)

\* the Model as it was when the last call began
Pre == ModelOf(SubSeq(variables, 1, last.nv), SubSeq(constraints, 1, last.nc), last.ctr)

MinOf(S) == CHOOSE x \in S : \A y \in S : x <= y
MaxOf(S) == CHOOSE x \in S : \A y \in S : x >= y

Operands == Range(last.vs)

(***************************************************************************)
(* Claims on the logical primitives (checked under SpecLogic)              *)
(***************************************************************************)

\* C5: and(v1..vn), n >= 2, binary operands (repeats allowed): for every 0/1
\* assignment of the operands the added rows admit exactly one value of the
\* returned z, the minimum of the operands.
C5_AndExact ==
    (last.op = "and" /\ last.err = NoError /\ Len(last.vs) >= 2)
        => \A a \in AssignmentsOf(variables, Operands) :
              FeasibleRet(a) = {MinOf({a[v] : v \in Operands})}

C5_Witness ==
    /\ last.op = "and"
    /\ last.err = NoError
    /\ Len(last.vs) = 3
    /\ Cardinality(Operands) = 2
    /\ Len(constraints) = last.nc + 4

\* C6: or(v1..vn), n >= 2, binary operands: for every 0/1 assignment of the
\* operands the added rows admit exactly one value of the returned z, the
\* maximum of the operands.
C6_OrExact ==
    (last.op = "or" /\ last.err = NoError /\ Len(last.vs) >= 2)
        => \A a \in AssignmentsOf(variables, Operands) :
              FeasibleRet(a) = {MaxOf({a[v] : v \in Operands})}

C6_Witness ==
    /\ last.op = "or"
    /\ last.err = NoError
    /\ Len(last.vs) = 3
    /\ Cardinality(Operands) = 2
    /\ Len(constraints) = last.nc + 4

OtherMethod(method) == IF method = "compact" THEN "constraints" ELSE "compact"

\* C7: xor(x, y) under either method: for every 0/1 assignment of x and y the
\* added rows admit exactly one value of the returned z, x XOR y, and the
\* other method applied to the same model admits the same values.
C7_XorExact ==
    (last.op = "xor" /\ last.err = NoError)
        => \A a \in AssignmentsOf(variables, Operands) :
              /\ FeasibleRet(a) = {(a[last.vs[1]] + a[last.vs[2]]) % 2}
              /\ LET r == xor(Pre, last.vs[1], last.vs[2], OtherMethod(last.opt))
                 IN FeasibleIn(r.m, last.nv, last.nc, r.ret, a) = FeasibleRet(a)

C7_Witness ==
    /\ last.op = "xor"
    /\ last.err = NoError
    /\ last.opt = "compact"
    /\ last.vs[1] # last.vs[2]
    /\ Len(variables) = last.nv + 2

(***************************************************************************)
(* Claims on reification (SpecReify) and indicators (SpecIndicator)        *)
(***************************************************************************)
\* the variables an expression mentions
VarsOf(e) == {e.terms[i].var : i \in 1..Len(e.terms)}

\* a reify() call that used the automatic Big-M and the default epsilon on an
\* expression isIntegral() accepts (rhs is an integer throughout)
IntegralReify(senses) ==
    /\ last.op = "reify"
    /\ last.err = NoError
    /\ last.c.sense \in senses
    /\ last.opt.bigM = Undefined
    /\ last.opt.epsilon = NoEps
    /\ isIntegral(variables, last.c.expr)

\* C8: reify(expr <= rhs) and reify(expr >= rhs), integral case, automatic
\* Big-M, default epsilon: for every in-bounds integer assignment the added
\* rows admit delta = 1 only when the inequality holds and delta = 0 only when
\* it is violated, and exactly that value is admitted (boundary expr = rhs and
\* rhs outside the expression's bounds included).
C8_ReifyIneqExact ==
    IntegralReify({"<=", ">="})
        => \A a \in AssignmentsOf(variables, VarsOf(last.c.expr)) :
              FeasibleRet(a) = {IF Holds(last.c, a) THEN 1 ELSE 0}

\* reify(expr >= rhs) with rhs above the expression's upper bound, over two terms or one
C8_Witness ==
    /\ IntegralReify({">="})
    /\ Len(last.c.expr.terms) >= 1
    /\ last.c.rhs > exprBounds(variables, last.c.expr).ub
    /\ Len(constraints) = last.nc + 2

\* C9: reify(expr = rhs), integral case: for every in-bounds integer
\* assignment, some value of the auxiliary mu satisfies the four added rows
\* with delta = 1 exactly when expr = rhs and with delta = 0 exactly when
\* expr # rhs.
C9_ReifyEqExact ==
    IntegralReify({"="})
        => \A a \in AssignmentsOf(variables, VarsOf(last.c.expr)) :
              FeasibleRet(a) = {IF Eval(last.c.expr, a) = last.c.rhs THEN 1 ELSE 0}

\* reify(expr = rhs) with rhs inside the bounds but not at their centre
C9_Witness ==
    /\ IntegralReify({"="})
    /\ Len(last.c.expr.terms) >= 1
    /\ LET b == exprBounds(variables, last.c.expr)
       IN b.lb <= last.c.rhs /\ last.c.rhs <= b.ub /\ last.c.rhs - b.lb # b.ub - last.c.rhs
    /\ Len(constraints) = last.nc + 4
    /\ Len(variables) = last.nv + 2

\* (The rows are linear, so a row that holds at every integer point of the box
\* of bounds holds on the whole box.)
\* C10: addIndicator(delta, c, {active}) with the automatic Big-M, every
\* sense and both active values: for every in-bounds assignment, the added
\* rows hold exactly when c holds if delta = active, and hold always if
\* delta # active.
C10_IndicatorRelaxation ==
    (last.op = "addIndicator" /\ last.err = NoError /\ last.opt.bigM = Undefined)
        => \A a \in AssignmentsOf(variables, VarsOf(last.c.expr) \cup {last.vs[1]}) :
              IF a[last.vs[1]] = (IF last.opt.active # Undefined THEN last.opt.active ELSE 1)
              THEN AllHold(SubSeq(constraints, last.nc + 1, Len(constraints)), a)
                      <=> Holds(last.c, a)
              ELSE AllHold(SubSeq(constraints, last.nc + 1, Len(constraints)), a)

\* addIndicator with active = 0 on an equality whose rhs lies outside the bounds
C10_Witness ==
    /\ last.op = "addIndicator"
    /\ last.err = NoError
    /\ last.opt.bigM = Undefined
    /\ last.opt.active = 0
    /\ last.c.sense = "="
    /\ Len(last.c.expr.terms) >= 1
    /\ last.c.rhs < exprBounds(variables, last.c.expr).lb
    /\ Len(constraints) = last.nc + 2

(***************************************************************************)
(* Claims on the arithmetic primitives (checked under SpecArith)           *)
(***************************************************************************)
Abs1(x) == IF x < 0 THEN -x ELSE x

\* the expression operand of the last abs() / divMod() call
LastExpr == ItemExpr(last.es[1])

\* C11: abs(expr) with the automatic bounds [L, U], whatever their signs: for
\* every in-bounds assignment of the expression's variables, the values of
\* the returned t for which some xPlus, xMinus and delta satisfy the four
\* added rows are exactly {|expr|}.
C11_AbsExact ==
    (last.op = "abs" /\ last.err = NoError /\ last.opt.bigM = Undefined)
        => \A a \in AssignmentsOf(variables, VarsOf(LastExpr)) :
              FeasibleRet(a) = {Abs1(Eval(LastExpr, a))}

\* abs of an expression whose bounds straddle zero
C11_Witness ==
    /\ last.op = "abs"
    /\ last.err = NoError
    /\ last.opt.bigM = Undefined
    /\ ~last.es[1].isVar
    /\ exprBounds(variables, LastExpr).lb < 0
    /\ exprBounds(variables, LastExpr).ub > 0
    /\ Len(variables) = last.nv + 4
    /\ Len(constraints) = last.nc + 4

\* a product() call with the automatic bounds; nBin is how many operands are binary
ProductOf(nBin) ==
    /\ last.op = "product"
    /\ last.err = NoError
    /\ last.opt.bigM = Undefined
    /\ Cardinality({i \in 1..2 : isBinary(variables[last.vs[i]])}) = nBin

\* C14: product(x, y) with exactly one binary operand delta and a non-binary
\* operand z of finite bounds: for every in-bounds (delta, z) the four rows
\* and w's own bounds admit exactly w = delta * z, and product(y, x) admits
\* the same values; with two binary operands the call is and(x, y).
C14_ProductExact ==
    /\ ProductOf(1)
          => \A a \in AssignmentsOf(variables, Operands) :
                /\ FeasibleRet(a) = {a[last.vs[1]] * a[last.vs[2]]}
                /\ LET r == product(Pre, last.vs[2], last.vs[1], last.opt)
                   IN FeasibleIn(r.m, last.nv, last.nc, r.ret, a) = FeasibleRet(a)
    /\ ProductOf(2)
          => LET r == and(Pre, last.vs)
             IN r.m = Cur /\ r.ret = last.ret

\* the binary is the second argument and the other operand can be negative
C14_Witness ==
    /\ ProductOf(1)
    /\ isBinary(variables[last.vs[2]])
    /\ variables[last.vs[1]].lb < 0
    /\ variables[last.vs[1]].ub > 0
    /\ Len(constraints) = last.nc + 4

DivModPairs(a) ==
    {p \in DomOf(variables[last.ret]) \X DomOf(variables[last.ret2]) :
        AllHold(SubSeq(constraints, last.nc + 1, Len(constraints)),
                (last.ret :> p[1]) @@ (last.ret2 :> p[2]) @@ a)}

\* C16: divMod(expr, d), d a positive integer, expr integer-valued with
\* bounds 0 <= lb and finite ub: q is declared in [0, floor(ub/d)] and r in
\* [0, d-1], and for every value n of expr within its bounds exactly one pair
\* (q, r) within those bounds satisfies expr - q*d - r = 0, namely
\* (floor(n/d), n mod d).
C16_DivModUnique ==
    (last.op = "divMod" /\ last.err = NoError /\ isIntegral(variables, LastExpr))
        => /\ DomOf(variables[last.ret]) = 0..(exprBounds(variables, LastExpr).ub \div last.nums[1])
           /\ DomOf(variables[last.ret2]) = 0..(last.nums[1] - 1)
           /\ \A a \in AssignmentsOf(variables, VarsOf(LastExpr)) :
                 DivModPairs(a) = {<<Eval(LastExpr, a) \div last.nums[1],
                                     Eval(LastExpr, a) % last.nums[1]>>}

\* divMod(2x + 1, 3) with x in 0..2: n ranges over 1, 3, 5
C16_Witness ==
    /\ last.op = "divMod"
    /\ last.err = NoError
    /\ isIntegral(variables, LastExpr)
    /\ last.nums[1] = 3
    /\ exprBounds(variables, LastExpr).ub = 5
    /\ variables[last.ret].ub = 1
    /\ variables[last.ret2].ub = 2

(***************************************************************************)
(* Claims on max() and min() (checked under SpecMinMax)                    *)
(***************************************************************************)
\* the operands of the last max() / min() call, as expressions
LastExprs == [i \in 1..Len(last.es) |-> ItemExpr(last.es[i])]

\* the variables the operands mention
LastExprVars == UNION {VarsOf(LastExprs[i]) : i \in 1..Len(last.es)}

\* the values of the operands under an assignment
ValuesOf(a) == {Eval(LastExprs[i], a) : i \in 1..Len(last.es)}

\* a max() / min() call over n >= 2 operands with the automatic Big-M
Selecting(op) ==
    /\ last.op = op
    /\ last.err = NoError
    /\ Len(last.es) >= 2
    /\ last.opt.bigM = Undefined

\* the added rows hold when t = tv and selector number i (of the selectors
\* that start after variable `base`) is the one set to 1
SelectorFeasible(base, i, tv, a) ==
    AllHold(SubSeq(constraints, last.nc + 1, Len(constraints)),
            (last.ret :> tv) @@ [d \in (base + 1)..(base + Len(last.es)) |->
                                    IF d = base + i THEN 1 ELSE 0] @@ a)

\* C12: max(exprs), n >= 2, automatic Big-M: for every in-bounds assignment
\* of the operands, the values of t admitted by some selector assignment are
\* exactly {max_i e_i}, and every selector whose expression attains the
\* maximum is a feasible choice (the rows of the other expressions are slack).
C12_MaxExact ==
    Selecting("max")
        => \A a \in AssignmentsOf(variables, LastExprVars) :
              /\ FeasibleRet(a) = {MaxOf(ValuesOf(a))}
              /\ \A i \in 1..Len(last.es) :
                    Eval(LastExprs[i], a) = MaxOf(ValuesOf(a))
                        => SelectorFeasible(last.nv, i, MaxOf(ValuesOf(a)), a)

\* max of two operands with different bound ranges that can tie
C12_Witness ==
    /\ Selecting("max")
    /\ exprBounds(variables, LastExprs[1]) # exprBounds(variables, LastExprs[2])
    /\ \E a \in AssignmentsOf(variables, LastExprVars) : Cardinality(ValuesOf(a)) = 1
    /\ \E a \in AssignmentsOf(variables, LastExprVars) : Cardinality(ValuesOf(a)) = 2
    /\ Len(constraints) = last.nc + 2 * Len(last.es) + 1

\* C13: min(exprs), n >= 2, automatic Big-M: for every in-bounds assignment
\* of the operands, the values of t admitted by some selector assignment are
\* exactly {min_i e_i}, and every selector whose expression attains the
\* minimum is a feasible choice.
C13_MinExact ==
    Selecting("min")
        => \A a \in AssignmentsOf(variables, LastExprVars) :
              /\ FeasibleRet(a) = {MinOf(ValuesOf(a))}
              /\ \A i \in 1..Len(last.es) :
                    Eval(LastExprs[i], a) = MinOf(ValuesOf(a))
                        => SelectorFeasible(last.nv + 1, i, MinOf(ValuesOf(a)), a)

\* min of two operands with different bound ranges that can tie
C13_Witness ==
    /\ Selecting("min")
    /\ exprBounds(variables, LastExprs[1]) # exprBounds(variables, LastExprs[2])
    /\ \E a \in AssignmentsOf(variables, LastExprVars) : Cardinality(ValuesOf(a)) = 1
    /\ \E a \in AssignmentsOf(variables, LastExprVars) : Cardinality(ValuesOf(a)) = 2
    /\ last.ret = last.nv + 1
    /\ Len(constraints) = last.nc + 2 * Len(last.es) + 1

(***************************************************************************)
(* Claims on addEitherOr (checked under SpecEitherOr)                      *)
(***************************************************************************)
\* an addEitherOr() call with the automatic Big-M
EitherOrCall == last.op = "addEitherOr" /\ last.err = NoError /\ last.opt.bigM = Undefined

\* the variables the two constraints mention
EitherOrVars == VarsOf(last.cs[1].expr) \cup VarsOf(last.cs[2].expr)

\* the added rows hold under a with the auxiliary delta set to d
EitherOrFeasible(d, a) ==
    AllHold(SubSeq(constraints, last.nc + 1, Len(constraints)), ((last.nv + 1) :> d) @@ a)

\* C17: addEitherOr(c1, c2) with the automatic Big-M: for every in-bounds
\* assignment, delta = 0 satisfies the added rows exactly when c1 holds and
\* delta = 1 exactly when c2 holds; so some delta is feasible iff c1 or c2
\* holds (both holding is feasible, neither holding is not).
C17_EitherOr ==
    EitherOrCall
        => \A a \in AssignmentsOf(variables, EitherOrVars) :
              /\ EitherOrFeasible(0, a) <=> Holds(last.cs[1], a)
              /\ EitherOrFeasible(1, a) <=> Holds(last.cs[2], a)
              /\ (\E d \in {0, 1} : EitherOrFeasible(d, a))
                    <=> (Holds(last.cs[1], a) \/ Holds(last.cs[2], a))

\* two constraints over different variables: both, exactly one and neither hold
C17_Witness ==
    /\ EitherOrCall
    /\ last.cs[1].sense = "="
    /\ \E a \in AssignmentsOf(variables, EitherOrVars) :
          Holds(last.cs[1], a) /\ Holds(last.cs[2], a)
    /\ \E a \in AssignmentsOf(variables, EitherOrVars) :
          Holds(last.cs[1], a) /\ ~Holds(last.cs[2], a)
    /\ \E a \in AssignmentsOf(variables, EitherOrVars) :
          ~Holds(last.cs[1], a) /\ Holds(last.cs[2], a)
    /\ \E a \in AssignmentsOf(variables, EitherOrVars) :
          ~Holds(last.cs[1], a) /\ ~Holds(last.cs[2], a)
    /\ Len(variables) = last.nv + 1
    /\ Len(constraints) = last.nc + 3

(***************************************************************************)
(* Claims on the errors of the primitives (checked under SpecPrimitives)   *)
(***************************************************************************)
Primitives ==
    {"and", "or", "not", "xor", "addImplication", "addAtMost", "addAtLeast", "addExactly",
     "addIndicator", "abs", "max", "min", "product", "semiContVar", "divMod", "addEitherOr",
     "reify"}

\* the Model is as it was when the last call began
ModelUntouched ==
    /\ Len(variables) = last.nv
    /\ Len(constraints) = last.nc
    /\ varCounter = last.ctr

\* C18: a primitive that throws leaves the list of variables, the list of
\* constraints and the auto-name counter exactly as they were before the call.
C18_NoPartialMutation ==
    (last.op \in Primitives /\ last.err # NoError) => ModelUntouched

\* What the code does guarantee: every primitive but addEitherOr makes its
\* checks before it creates anything; addEitherOr has already created delta
\* (and perhaps the rows of c1) when addIndicator throws.
NoPartialMutationButEitherOr ==
    /\ (last.op \in Primitives \ {"addEitherOr"} /\ last.err # NoError) => ModelUntouched
    /\ (last.op = "addEitherOr" /\ last.err # NoError)
          => /\ Len(variables) = last.nv + 1
             /\ varCounter = last.ctr + 1

InfiniteBoundsError(context) ==
    context \o ": cannot auto-compute Big-M because expression has infinite bounds"

\* computed bounds of an expression that finiteBounds rejects
Unbounded(e) == FiniteOrError(exprBounds(variables, e), "") .err # NoError

\* the primitives that take a bigM option, and the option of the last call
BigMPrimitives == {"addIndicator", "abs", "max", "min", "product", "reify", "addEitherOr"}
LastBigM == IF last.op \in BigMPrimitives THEN last.opt.bigM ELSE Undefined

\* the last call got as far as deriving a Big-M (its other arguments are
\* valid) and one of its operand expressions has a non-finite computed bound
DerivesFromUnbounded ==
    CASE last.op = "addIndicator" ->
            isBinary(variables[last.vs[1]]) /\ Unbounded(last.c.expr)
      [] last.op = "reify" -> Unbounded(last.c.expr)
      [] last.op = "addEitherOr" -> \E i \in 1..2 : Unbounded(last.cs[i].expr)
      [] last.op = "abs" -> Unbounded(LastExpr)
      [] last.op \in {"max", "min"} ->
            Len(last.es) >= 2 /\ \E i \in 1..Len(last.es) : Unbounded(LastExprs[i])
      [] last.op = "product" ->
            /\ Cardinality({i \in 1..2 : isBinary(variables[last.vs[i]])}) = 1
            /\ \E i \in 1..2 : /\ ~isBinary(variables[last.vs[i]])
                               /\ Unbounded(AsExpr(last.vs[i]))
      [] last.op = "divMod" ->
            IsInteger(last.nums[1]) /\ last.nums[1] > 0 /\ Unbounded(LastExpr)
      [] OTHER -> FALSE

\* C19: addIndicator, abs, max (n >= 2), min (n >= 2), product (binary x
\* non-binary), reify and addEitherOr, called without bigM on an operand whose
\* computed lower or upper bound is not finite, raise the infinite-bounds
\* error that names the primitive called; so does divMod, which has no bigM;
\* and none of them raises that error when bigM is supplied.
C19_InfiniteBoundsError ==
    /\ (DerivesFromUnbounded /\ LastBigM = Undefined)
          => last.err = InfiniteBoundsError(last.op \o "()")
    /\ (last.op \in BigMPrimitives /\ LastBigM # Undefined)
          => last.err \notin {InfiniteBoundsError(p \o "()") : p \in Primitives}

\* What the code does guarantee: the error is raised in each of those cases,
\* but addEitherOr's error names addIndicator(), the primitive it delegates to.
InfiniteBoundsRaised ==
    /\ (DerivesFromUnbounded /\ LastBigM = Undefined)
          => last.err = InfiniteBoundsError(
                            IF last.op = "addEitherOr" THEN "addIndicator()" ELSE last.op \o "()")
    /\ (last.op \in BigMPrimitives /\ LastBigM # Undefined)
          => last.err \notin {InfiniteBoundsError(p \o "()") : p \in Primitives}

\* the primitives that call assertBinary on operands
BinaryPrimitives ==
    {"and", "or", "not", "xor", "addImplication", "addAtMost", "addAtLeast", "addExactly",
     "addIndicator"}

\* some operand passed where a binary is required is not binary
SomeNonBinary == \E i \in 1..Len(last.vs) : ~isBinary(variables[last.vs[i]])

\* C20: and, or, not, xor, addImplication, addAtMost, addAtLeast, addExactly
\* (each listed variable) and addIndicator (delta) raise the must-be-binary
\* error whenever an operand is neither binary nor an integer variable with
\* bounds 0 and 1, for every number of operands.
C20_MustBeBinary ==
    (last.op \in BinaryPrimitives /\ SomeNonBinary)
        => last.err = assertBinary(Var(NoName, "continuous", 0, 2), last.op \o "()")

\* What the code does guarantee: the error is raised except by and() and or()
\* called with a single operand, which return that operand unchecked.
MustBeBinaryButSingle ==
    /\ (last.op \in BinaryPrimitives /\ SomeNonBinary
          /\ ~(last.op \in {"and", "or"} /\ Len(last.vs) = 1))
          => last.err = assertBinary(Var(NoName, "continuous", 0, 2), last.op \o "()")
    /\ (last.op \in {"and", "or"} /\ Len(last.vs) = 1)
          => (last.err = NoError /\ last.ret = last.vs[1] /\ ModelUntouched)

(***************************************************************************)
(* Part 3: caller-supplied names, addConstraint, the objective, print()    *)
(***************************************************************************)
\* ---- mps-format.ts, ROWS: constraint.name ?? `c${constraintIndex++}` ----
\* constraintIndex when the loop reaches row i: the unnamed rows before it
constraintIndex(cs, i) == Cardinality({j \in 1..(i - 1) : cs[j].name = NoName})

constraintNames(cs) ==
    [i \in 1..Len(cs) |->
        IF cs[i].name # NoName THEN cs[i].name ELSE "c" \o ToString(constraintIndex(cs, i))]

\* ---- actions ----
\* the caller adds rows, sets the objective and applies primitives while the
\* model holds fewer than MaxRows rows
CanBuild ==
    last.err = NoError /\ Len(variables) <= MaxUserVars /\ Len(constraints) < MaxRows

\* the Constraint objects the caller can pass: one it builds now, or one it
\* passed before and still holds
NewObject(c) == [c EXCEPT !.obj = Len(constraints) + 1]
HeldObjects == {constraints[i] : i \in {j \in 1..Len(constraints) : constraints[j].obj # 0}}

AddConstraint(c, name) ==
    CanBuild /\ Commit("addConstraint", <<>>, c, name, Done(addConstraint(Cur, c, name), 0))

\* minimize(expr) / maximize(expr)
SetObjective(op, it) ==
    /\ last.err = NoError
    /\ objective' = <<ItemExpr(it)>>
    /\ modelSense' = op
    /\ last' = [NoCall EXCEPT !.op = op, !.es = <<it>>, !.nv = Len(variables),
                              !.nc = Len(constraints), !.ctr = varCounter]
    /\ UNCHANGED <<variables, constraints, varCounter, run>>
    /\ UNCHANGED hvars

Minimize(it) == SetObjective("minimize", it)
Maximize(it) == SetObjective("maximize", it)

\* a primitive applied to a model that may already hold rows
Apply(op, vs, es, nums, cs, opt, r) == CanBuild /\ CommitCall(op, vs, es, nums, cs, opt, r)

\* print(format): the text is a function of the fields, which it leaves alone
PrintModel(format) ==
    /\ last.err = NoError
    /\ CommitCall("print", <<>>, <<>>, <<>>, <<>>, format, Done(Cur, 0))

VarNames == {NoName, "x0"}
RowNames == {NoName, "c0"}
NamedRows == {Leq(AsExpr(v), 1) : v \in VarIds}

\* factories with caller-supplied and generated names, rows added with and
\* without names, primitives that add auxiliaries of their own
NextModel ==
    \/ \E n \in VarNames : BoolVar(n)
    \/ IntVar(0, 2, NoName)
    \/ NumVar(0, Infinity, NoName)
    \/ CanBuild /\ \E c \in NamedRows, n \in RowNames : AddConstraint(NewObject(c), n)
    \/ CanBuild /\ \E c \in HeldObjects, n \in RowNames : AddConstraint(c, n)
    \/ \E v \in VarIds : Minimize(VarItem(v))
    \/ \E v \in VarIds : Maximize(VarItem(v))
    \/ CanBuild /\ \E x \in VarIds : Apply("not", <<x>>, <<>>, <<>>, <<>>, "none", not(Cur, x))
    \/ CanBuild /\ \E x \in VarIds, y \in VarIds :
                      Apply("and", <<x, y>>, <<>>, <<>>, <<>>, "none", and(Cur, <<x, y>>))
    \/ CanBuild /\ \E n \in VarNames :
                      Apply("semiContVar", <<>>, <<>>, <<1, 3>>, <<>>, "none",
                            semiContVar(Cur, 1, 3, n))
    \/ PrintModel("mps")

SpecModel == InitModel /\ [][NextModel]_vars

\* C21: after any sequence of numVar / intVar / boolVar / semiContVar / primitive
\* calls, with caller-supplied and generated names mixed, no two variables of
\* the model carry the same name
C21_UniqueVarNames ==
    \A i \in 1..Len(variables), j \in 1..Len(variables) :
        i # j => variables[i].name # variables[j].name

\* C22: the row names print('mps') emits are pairwise distinct, and the rows
\* added without a name are labelled c0, c1, ... in insertion order
UnnamedRows(cs) == SelectSeq([i \in 1..Len(cs) |-> i], LAMBDA i : cs[i].name = NoName)

C22_UniqueRowNames ==
    (last.op = "print" /\ last.opt = "mps") =>
        LET names == constraintNames(constraints)
            unnamed == UnnamedRows(constraints)
        IN /\ \A i \in 1..Len(names), j \in 1..Len(names) : i # j => names[i] # names[j]
           /\ \A k \in 1..Len(unnamed) : names[unnamed[k]] = "c" \o ToString(k - 1)

\* C28: the Model is append-only.  Every step leaves the variables it held as
\* a prefix of the new list, with their name, type and bounds, and the rows it
\* held as a prefix of the new list: the same objects with the same
\* expression, sense and rhs; the row addConstraint appends has the
\* expression, sense and rhs of the operand it was given
SameConstraint(a, b) ==
    a.obj = b.obj /\ a.expr = b.expr /\ a.sense = b.sense /\ a.rhs = b.rhs /\ a.den = b.den

AppendOnly ==
    /\ Len(variables) <= Len(variables')
    /\ \A i \in 1..Len(variables) : variables'[i] = variables[i]
    /\ Len(constraints) <= Len(constraints')
    /\ \A i \in 1..Len(constraints) : SameConstraint(constraints'[i], constraints[i])
    /\ last'.op = "addConstraint" =>
           /\ Len(constraints') = Len(constraints) + 1
           /\ SameConstraint(constraints'[Len(constraints')], last'.c)

C28_AppendOnly == [][AppendOnly]_vars

\* a primitive has added variables and rows to a model that held both, and a
\* held Constraint object has been added again under a new name
C28_Witness ==
    /\ last.op \in {"and", "not", "semiContVar"}
    /\ last.nv >= 1 /\ last.nc >= 1
    /\ Len(variables) > last.nv /\ Len(constraints) > last.nc
    /\ constraints[1].name # NoName

(***************************************************************************)
(* exprBounds as a function of its own (checked under SpecBounds)          *)
(***************************************************************************)
\* exprBounds(expr) for a LinExpr | Var
exprBoundsOf(vsAll, it) ==
    IF it.isVar THEN [lb |-> vsAll[it.var].lb, ub |-> vsAll[it.var].ub]
    ELSE exprBounds(vsAll, it.expr)

\* a call of exprBounds: nums holds the pair it returned; the function is
\* pure, so one call is made between two changes of the model
CanAsk == last.err = NoError /\ last.op # "exprBounds"

ExprBounds(it) ==
    /\ CanAsk
    /\ CommitCall("exprBounds", <<>>, <<it>>,
                  <<exprBoundsOf(variables, it).lb, exprBoundsOf(variables, it).ub>>,
                  <<>>, "none", Done(Cur, 0))

\* expressions with positive, negative and zero coefficients, repeated variables
BoundTerms == {Term(k, v) : k \in {-1, 0, 2}, v \in VarIds}
BoundItems ==
    {VarItem(v) : v \in VarIds} \cup
    {ExprItem([terms |-> ts, constant |-> k]) :
        ts \in UNION {[1..n -> BoundTerms] : n \in 0..MaxBoundTerms}, k \in {0, 3}}

NextBounds ==
    \/ BoolVar(NoName)
    \/ \E b \in {<<0, 2>>, <<-1, 1>>} : IntVar(b[1], b[2], NoName)
    \/ \E b \in {<<0, Infinity>>, <<NegInfinity, 1>>} : NumVar(b[1], b[2], NoName)
    \/ CanAsk /\ \E it \in BoundItems : ExprBounds(it)

SpecBounds == InitModel /\ [][NextBounds]_vars

BoundsCall == last.op = "exprBounds"
BoundsExpr == ItemExpr(last.es[1])
FiniteVars(e) == \A v \in VarsOf(e) : IsFinite(variables[v].lb) /\ IsFinite(variables[v].ub)
\* every variable of e occurs in one term only
OncePerVar(e) ==
    \A i \in 1..Len(e.terms), j \in 1..Len(e.terms) : i # j => e.terms[i].var # e.terms[j].var
ValuesIn(e) == {Eval(e, a) : a \in AssignmentsOf(variables, VarsOf(e))}

\* C23: for an expression over variables with finite bounds, every value the
\* expression takes with each variable within its bounds lies in
\* [exprBounds.lb, exprBounds.ub]; when no variable occurs in two terms, both
\* bounds are values the expression takes
C23_BoundsSound ==
    (BoundsCall /\ FiniteVars(BoundsExpr)) =>
      LET values == ValuesIn(BoundsExpr) IN
        /\ \A x \in values : last.nums[1] <= x /\ x <= last.nums[2]
        /\ OncePerVar(BoundsExpr) => (last.nums[1] \in values /\ last.nums[2] \in values)

\* bounds were computed for a variable repeated with coefficients of both
\* signs and a non-zero constant, and are sound without being attained
C23_Witness ==
    /\ BoundsCall /\ FiniteVars(BoundsExpr)
    /\ BoundsExpr.constant # 0
    /\ Len(BoundsExpr.terms) = 2 /\ ~OncePerVar(BoundsExpr)
    /\ BoundsExpr.terms[1].coeff < 0 /\ BoundsExpr.terms[2].coeff > 0
    /\ last.nums[1] \notin ValuesIn(BoundsExpr)

\* the expression without its zero-coefficient terms
NoZeroTerms(e) == [e EXCEPT !.terms = SelectSeq(@, LAMBDA t : t.coeff # 0)]

\* C24: a term with coefficient 0 contributes nothing to either bound,
\* whatever the bounds of its variable: exprBounds returns what it returns
\* for the expression without its zero-coefficient terms
C24_ZeroCoeffNeutral ==
    (BoundsCall /\ ~last.es[1].isVar) =>
        <<last.nums[1], last.nums[2]>> =
            <<exprBounds(variables, NoZeroTerms(BoundsExpr)).lb,
              exprBounds(variables, NoZeroTerms(BoundsExpr)).ub>>

\* the same, for zero-coefficient terms on variables with finite bounds only
ZeroCoeffNeutralIfFinite ==
    (BoundsCall /\ ~last.es[1].isVar) =>
        ((\A i \in 1..Len(BoundsExpr.terms) :
              BoundsExpr.terms[i].coeff = 0 =>
                  /\ IsFinite(variables[BoundsExpr.terms[i].var].lb)
                  /\ IsFinite(variables[BoundsExpr.terms[i].var].ub))
         => <<last.nums[1], last.nums[2]>> =
                <<exprBounds(variables, NoZeroTerms(BoundsExpr)).lb,
                  exprBounds(variables, NoZeroTerms(BoundsExpr)).ub>>)

(***************************************************************************)
(* Part 4: the MPS serializer (mps-format.ts)                              *)
(*                                                                         *)
(* The text is kept as its sections: ROWS, COLUMNS, RHS and BOUNDS are     *)
(* sequences of lines, a line is a record of its fields, and a number is   *)
(* the string the template literal `${n}` makes of it.                     *)
(***************************************************************************)
\* `${n}` for a number
NumText(n) ==
    IF n = NaN THEN "NaN"
    ELSE IF n = Infinity THEN "Infinity"
    ELSE IF n = NegInfinity THEN "-Infinity"
    ELSE ToString(n)

\* the MPSFormatInput print() builds from the Model's fields
FormatInput ==
    [objective |-> objective, sense |-> modelSense,
     constraints |-> constraints, variables |-> variables]

\* ROWS: ' N  obj', then one typed line per constraint
RowLines(input) ==
    <<[type |-> "N", name |-> "obj"]>> \o
    [i \in 1..Len(input.constraints) |->
        [type |-> IF input.constraints[i].sense = "<=" THEN "L"
                  ELSE IF input.constraints[i].sense = ">=" THEN "G" ELSE "E",
         name |-> constraintNames(input.constraints)[i]]]

\* the terms the two loops over the objective and the constraints visit, in
\* order, each under the name of its variable and the name of its row
TermsUnder(input, e, rowName) ==
    [k \in 1..Len(e.terms) |->
        [var |-> input.variables[e.terms[k].var].name, row |-> rowName,
         coeff |-> e.terms[k].coeff]]

RECURSIVE ConstraintTerms(_, _)
ConstraintTerms(input, n) ==
    IF n = 0 THEN <<>>
    ELSE ConstraintTerms(input, n - 1) \o
         TermsUnder(input, input.constraints[n].expr, constraintNames(input.constraints)[n])

VisitedTerms(input) ==
    (IF input.objective = <<>> THEN <<>> ELSE TermsUnder(input, input.objective[1], "obj"))
    \o ConstraintTerms(input, Len(input.constraints))

\* coeffs.set(rowName, (coeffs.get(rowName) ?? 0) + term.coeff) on a Map kept
\* as the sequence of its entries in insertion order
MapAdd(coeffs, rowName, coeff) ==
    IF \E k \in 1..Len(coeffs) : coeffs[k].row = rowName
    THEN [k \in 1..Len(coeffs) |->
             IF coeffs[k].row = rowName
             THEN [row |-> rowName, coeff |-> NumAdd(coeffs[k].coeff, coeff)]
             ELSE coeffs[k]]
    ELSE Append(coeffs, [row |-> rowName, coeff |-> NumAdd(0, coeff)])

RECURSIVE varCoeffs(_, _)
\* varCoeffs.get(name) after the first n visited terms
varCoeffs(terms, name) ==
    IF terms = <<>> THEN <<>>
    ELSE IF terms[Len(terms)].var # name THEN varCoeffs(SubSeq(terms, 1, Len(terms) - 1), name)
    ELSE MapAdd(varCoeffs(SubSeq(terms, 1, Len(terms) - 1), name),
                terms[Len(terms)].row, terms[Len(terms)].coeff)

\* mutant of ColumnLinesOf: every Map entry is written
ColumnLinesOf_all(coeffs, v, int) ==
    [k \in 1..Len(coeffs) |->
        [var |-> v.name, row |-> coeffs[k].row, value |-> NumText(coeffs[k].coeff), int |-> int]]

\* the lines of one variable: its Map entries with coeff !== 0
ColumnLinesOf(coeffs, v, int) ==
    [k \in 1..Len(SelectSeq(coeffs, LAMBDA c : c.coeff # 0)) |->
        [var |-> v.name, row |-> SelectSeq(coeffs, LAMBDA c : c.coeff # 0)[k].row,
         value |-> NumText(SelectSeq(coeffs, LAMBDA c : c.coeff # 0)[k].coeff),
         int |-> int]]

RECURSIVE ColumnsOver(_, _, _, _)
\* the lines of the first n variables of vs
ColumnsOver(terms, vs, n, int) ==
    IF n = 0 THEN <<>>
    ELSE ColumnsOver(terms, vs, n - 1, int) \o
         ColumnLinesOf(varCoeffs(terms, vs[n].name), vs[n], int)

\* COLUMNS: continuous variables, then integer and binary ones between the
\* INTORG / INTEND markers (int tells the lines between the markers)
ColumnLines(input) ==
    ColumnsOver(VisitedTerms(input),
                SelectSeq(input.variables, LAMBDA v : v.type = "continuous"),
                Len(SelectSeq(input.variables, LAMBDA v : v.type = "continuous")), FALSE)
    \o
    ColumnsOver(VisitedTerms(input),
                SelectSeq(input.variables, LAMBDA v : v.type \in {"integer", "binary"}),
                Len(SelectSeq(input.variables, LAMBDA v : v.type \in {"integer", "binary"})), TRUE)

RECURSIVE RhsLines_rawrhs(_, _)
\* mutant of RhsLines: constraint.rhs is written as it is
RhsLines_rawrhs(input, n) ==
    IF n = 0 THEN <<>>
    ELSE RhsLines_rawrhs(input, n - 1) \o
         (IF input.constraints[n].rhs # 0
          THEN <<[row |-> constraintNames(input.constraints)[n],
                  value |-> NumText(input.constraints[n].rhs)]>>
          ELSE <<>>)

RECURSIVE RhsLines(_, _)
\* RHS: rhs = constraint.rhs - constraint.expr.constant, written if rhs !== 0
RhsLines(input, n) ==
    IF n = 0 THEN <<>>
    ELSE RhsLines(input, n - 1) \o
         (IF NumAdd(input.constraints[n].rhs, -input.constraints[n].expr.constant) # 0
          THEN <<[row |-> constraintNames(input.constraints)[n],
                  value |-> NumText(NumAdd(input.constraints[n].rhs,
                                           -input.constraints[n].expr.constant))]>>
          ELSE <<>>)

\* the BOUNDS lines of one variable
BoundLinesOf(v) ==
    IF v.type = "binary" THEN <<[kind |-> "BV", var |-> v.name, value |-> ""]>>
    ELSE (IF v.lb # 0 THEN <<[kind |-> "LO", var |-> v.name, value |-> NumText(v.lb)]>>
          ELSE <<>>)
         \o
         (IF v.ub # Infinity THEN <<[kind |-> "UP", var |-> v.name, value |-> NumText(v.ub)]>>
          ELSE IF v.lb = 0 THEN <<[kind |-> "PL", var |-> v.name, value |-> ""]>>
          ELSE <<>>)

RECURSIVE BoundsOver(_, _)
BoundsOver(vs, n) == IF n = 0 THEN <<>> ELSE BoundsOver(vs, n - 1) \o BoundLinesOf(vs[n])

\* BOUNDS: present if hasBounds || hasBinary
BoundLines(input) ==
    IF \/ \E i \in 1..Len(input.variables) :
             /\ input.variables[i].type # "binary"
             /\ (input.variables[i].lb # 0 \/ input.variables[i].ub # Infinity)
       \/ \E i \in 1..Len(input.variables) : input.variables[i].type = "binary"
    THEN BoundsOver(input.variables, Len(input.variables))
    ELSE <<>>

toMPSFormat(input) ==
    [objsense |-> IF input.sense = "maximize" THEN "MAX" ELSE "",
     rows |-> RowLines(input),
     columns |-> ColumnLines(input),
     rhs |-> RhsLines(input, Len(input.constraints)),
     bounds |-> BoundLines(input)]

\* ---- models handed to print('mps') ----
\* rows over the first variable and the newest one, x and y
\* a row whose terms cancel: x - x <= 1
CancelRows == {Leq(Plus(AsExpr(1), VarTimes(1, -1)), 1)}
\* a row with a constant equal to the rhs (2y + 1 = 1) and a row with an
\* explicit zero coefficient and a constant (0x + y + 3 >= 1)
PrintRows ==
    CancelRows
    \cup {Eq([terms |-> <<Term(2, Len(variables))>>, constant |-> 1], 1)}
    \cup {Geq([terms |-> <<Term(0, 1), Term(1, Len(variables))>>, constant |-> 3], 1)}
\* objectives with and without a constant term
PrintObjectives ==
    {VarItem(1), ExprItem([terms |-> <<Term(1, 1), Term(-1, Len(variables))>>, constant |-> 1])}

NextPrint ==
    \/ \E n \in VarNames : BoolVar(n)
    \/ IntVar(0, 2, NoName)
    \/ NumVar(0, Infinity, NoName)
    \/ CanBuild /\ variables # <<>> /\ \E c \in PrintRows : AddConstraint(NewObject(c), NoName)
    \/ CanBuild /\ variables # <<>> /\ \E c \in CancelRows : AddConstraint(NewObject(c), "c0")
    \/ variables # <<>> /\ \E it \in PrintObjectives : Minimize(it)
    \/ variables # <<>> /\ Maximize(VarItem(1))
    \/ PrintModel("mps")

SpecPrint == InitModel /\ [][NextPrint]_vars

(***************************************************************************)
(* Claims on print('mps') (checked under SpecPrint)                        *)
(***************************************************************************)
PrintCall == last.op = "print" /\ last.opt = "mps"
Text == toMPSFormat(FormatInput)
RowIds == 1..Len(constraints)
RowName(i) == constraintNames(constraints)[i]

\* the names tell the variables apart and the rows apart
DistinctNames ==
    /\ \A i \in VarIds, j \in VarIds : i # j => variables[i].name # variables[j].name
    /\ \A i \in RowIds, j \in RowIds : i # j => RowName(i) # RowName(j)
    /\ \A i \in RowIds : RowName(i) # "obj"

\* reading the text back: a decimal number, the lines of a row, the value of
\* a row's left-hand side under an assignment of the variables
MpsNumber(text) == CHOOSE n \in -20..20 : ToString(n) = text
VarNamed(name) == CHOOSE i \in VarIds : variables[i].name = name
ColumnsOf(t, name, row) ==
    {k \in 1..Len(t.columns) : t.columns[k].var = name /\ t.columns[k].row = row}
RhsOf(t, row) == {k \in 1..Len(t.rhs) : t.rhs[k].row = row}
RECURSIVE TextSum(_, _, _)
TextSum(lines, row, a) ==
    IF lines = <<>> THEN 0
    ELSE TextSum(SubSeq(lines, 1, Len(lines) - 1), row, a) +
         (IF lines[Len(lines)].row = row
          THEN MpsNumber(lines[Len(lines)].value) * a[VarNamed(lines[Len(lines)].var)]
          ELSE 0)
TextRhs(t, row) ==
    IF RhsOf(t, row) = {} THEN 0 ELSE MpsNumber(t.rhs[CHOOSE k \in RhsOf(t, row) : TRUE].value)
TextRowHolds(t, i, a) ==
    CASE t.rows[i + 1].type = "L" -> TextSum(t.columns, t.rows[i + 1].name, a) <= TextRhs(t, t.rows[i + 1].name)
      [] t.rows[i + 1].type = "G" -> TextSum(t.columns, t.rows[i + 1].name, a) >= TextRhs(t, t.rows[i + 1].name)
      [] OTHER -> TextSum(t.columns, t.rows[i + 1].name, a) = TextRhs(t, t.rows[i + 1].name)
SamplePoints == [VarIds -> {-1, 0, 2}]
\* the sum of the coefficients of e on variable v
RECURSIVE CoeffOn(_, _)
CoeffOn(e, v) ==
    IF e.terms = <<>> THEN 0
    ELSE CoeffOn([e EXCEPT !.terms = SubSeq(@, 1, Len(@) - 1)], v) +
         (IF e.terms[Len(e.terms)].var = v THEN e.terms[Len(e.terms)].coeff ELSE 0)

ExprOfRow(r) == IF r = 0 THEN (IF objective = <<>> THEN ZeroExpr ELSE objective[1])
                ELSE constraints[r].expr
NameOfRow(r) == IF r = 0 THEN "obj" ELSE RowName(r)

TextObjective(t, a) == TextSum(t.columns, "obj", a) - TextRhs(t, "obj")
ModelObjective(a) == IF objective = <<>> THEN 0 ELSE Eval(objective[1], a)

\* C27: the text of print('mps') denotes the problem of the Model: the same
\* sense, the same objective function with its constant term, and rows that
\* hold under the same assignments
C27_SameProblem ==
    (PrintCall /\ DistinctNames) =>
      LET t == Text IN
        /\ (t.objsense = "MAX") <=> (modelSense = "maximize")
        /\ \A a \in SamplePoints : TextObjective(t, a) = ModelObjective(a)
        /\ \A i \in RowIds, a \in SamplePoints : TextRowHolds(t, i, a) <=> Holds(constraints[i], a)

\* the same, with the objective compared up to its constant term
SameProblemUpToConstant ==
    (PrintCall /\ DistinctNames) =>
      LET t == Text IN
        /\ (t.objsense = "MAX") <=> (modelSense = "maximize")
        /\ \A a \in SamplePoints :
              TextObjective(t, a) = ModelObjective(a) - ModelObjective([v \in VarIds |-> 0])
        /\ \A i \in RowIds, a \in SamplePoints : TextRowHolds(t, i, a) <=> Holds(constraints[i], a)

(***************************************************************************)
(* The BOUNDS section (checked under SpecMpsBounds)                        *)
(***************************************************************************)
\* the single LinExpr operand 2x handed to max() / min()
SingleExprs == {<<ExprItem(VarTimes(v, 2))>> : v \in VarIds}

\* variables with default, finite and infinite bounds, the free variable of
\* max() / min() over one expression, then print('mps')
NextMpsBounds ==
    \/ BoolVar(NoName)
    \/ \E b \in {<<0, 2>>, <<1, Infinity>>, <<-1, 2>>} : IntVar(b[1], b[2], NoName)
    \/ \E b \in {<<0, Infinity>>, <<-2, Infinity>>} : NumVar(b[1], b[2], NoName)
    \/ CanBuild /\ \E items \in SingleExprs :
                      Apply("max", <<>>, items, <<>>, <<>>, AutoBigM, max(Cur, items, AutoBigM))
    \/ CanBuild /\ \E items \in SingleExprs :
                      Apply("min", <<>>, items, <<>>, <<>>, AutoBigM, min(Cur, items, AutoBigM))
    \/ PrintModel("mps")

SpecMpsBounds == InitModel /\ [][NextMpsBounds]_vars

\* the text of a finite number
FiniteText(text) == text \notin {NumText(Infinity), NumText(NegInfinity), NumText(NaN)}
BoundsOf(t, kind, name) ==
    {k \in 1..Len(t.bounds) : t.bounds[k].kind = kind /\ t.bounds[k].var = name}
\* every finite bound that is not the default of a non-binary variable has its line
FiniteBoundsWritten(t) ==
    \A i \in VarIds :
        variables[i].type # "binary" =>
            /\ (IsFinite(variables[i].lb) /\ variables[i].lb # 0) =>
                   \E k \in BoundsOf(t, "LO", variables[i].name) :
                       t.bounds[k].value = NumText(variables[i].lb)
            /\ IsFinite(variables[i].ub) =>
                   \E k \in BoundsOf(t, "UP", variables[i].name) :
                       t.bounds[k].value = NumText(variables[i].ub)

\* C30: every LO and UP line of the BOUNDS section carries a finite number,
\* also for the free variable max() / min() create for a single expression,
\* and every finite non-default bound of a non-binary variable is written
C30_FiniteBoundLines ==
    PrintCall =>
      LET t == Text IN
        /\ \A k \in 1..Len(t.bounds) :
              t.bounds[k].kind \in {"LO", "UP"} => FiniteText(t.bounds[k].value)
        /\ FiniteBoundsWritten(t)

\* the same, but for the LO line of a variable whose lower bound is -Infinity
FiniteBoundLinesButFree ==
    PrintCall =>
      LET t == Text IN
        /\ \A k \in 1..Len(t.bounds) :
              (/\ t.bounds[k].kind \in {"LO", "UP"}
               /\ ~(t.bounds[k].kind = "LO" /\ variables[VarNamed(t.bounds[k].var)].lb = NegInfinity))
              => FiniteText(t.bounds[k].value)
        /\ FiniteBoundsWritten(t)

(***************************************************************************)
(* Part 5: Model.solve()                                                   *)
(*                                                                         *)
(*   const lpString = this.print();                                        *)
(*   const highs = await BaseHiGHS.create(options);                        *)
(*   try { await highs.parse(lpString, 'lp');                              *)
(*         const result = await highs.solve();                             *)
(*         return new Solution(result); }                                  *)
(*   finally { highs.free(); }                                             *)
(*                                                                         *)
(* Each await is a step.  run.calls lists the calls made on the handle of  *)
(* this solve(): the method, the error it threw and whether the handle was *)
(* freed when it was called.                                               *)
(***************************************************************************)
HandleCall == [op |-> hlast'.op, err |-> hlast'.err, wasFreed |-> hlast'.wasFreed]

\* mutant of AfterParse: the try block goes on after parse threw
AfterParse_goeson(err) == "solve"

\* where control goes when the awaited parse settles: on, or to finally
AfterParse(err) == IF err = NoError THEN "solve" ELSE "finally"

modelFrame == <<variables, constraints, varCounter, objective, modelSense, last>>

\* solve() is called: print(), then the await of create()
SolveStart ==
    /\ run.pc = "idle" /\ run.solves < MaxSolves
    /\ run' = [NoRun EXCEPT !.pc = "create", !.solves = run.solves]
    /\ UNCHANGED modelFrame
    /\ UNCHANGED hvars

\* create() settles: with a new handle, or with the error it threw (the
\* promise of solve() rejects; no handle exists)
SolveCreate(ok) ==
    /\ run.pc = "create"
    /\ IF ok
       THEN /\ freed' = FALSE /\ engineLive' = TRUE /\ loaded' = FALSE /\ tmpFile' = FALSE
            /\ hlast' = Outcome("create", FALSE, <<"_malloc", "SCIPcreate", "getValue",
                                                   "SCIPincludeDefaultPlugins", "_free">>,
                                FALSE, NoError, NoResult)
            /\ run' = [run EXCEPT !.pc = "parse", !.created = TRUE]
       ELSE /\ UNCHANGED hvars
            /\ run' = [run EXCEPT !.pc = "idle", !.settled = "rejected", !.solves = @ + 1]
    /\ UNCHANGED modelFrame

\* await highs.parse(lpString, 'lp')
SolveParse(faults) ==
    /\ run.pc = "parse"
    /\ ParseBody("parse", faults)
    /\ run' = [run EXCEPT !.pc = AfterParse(hlast'.err), !.calls = Append(@, HandleCall)]
    /\ UNCHANGED modelFrame

\* await highs.solve(); new Solution(result) is the value returned
SolveSolve(statusCode, solPtr, faults) ==
    /\ run.pc = "solve"
    /\ SolveBody(statusCode, solPtr, faults)
    /\ run' = [run EXCEPT !.pc = "finally", !.calls = Append(@, HandleCall),
                          !.result = hlast'.result]
    /\ UNCHANGED modelFrame

\* finally { highs.free() }, after which the promise settles: resolved when
\* the try block returned and free() did not throw, rejected otherwise
SolveFinally(faults) ==
    /\ run.pc = "finally"
    /\ FreeBody(faults)
    /\ run' = [run EXCEPT !.pc = "idle", !.calls = Append(@, HandleCall),
                          !.settled = IF hlast.op = "solve" /\ hlast.err = NoError
                                         /\ hlast'.err = NoError
                                      THEN "resolved" ELSE "rejected",
                          !.solves = @ + 1]
    /\ UNCHANGED modelFrame

NextSolve ==
    \/ SolveStart
    \/ \E ok \in BOOLEAN : SolveCreate(ok)
    \/ \E f \in ParseFaults : SolveParse(f)
    \/ \E c \in StatusCodes, p \in {0, 1}, f \in SolveFaults : SolveSolve(c, p, f)
    \/ \E f \in FreeFaults : SolveFinally(f)

SpecSolve == InitModel /\ [][NextSolve]_vars

\* an awaited call of the engine settles, and the continuation of the async
\* function runs when it does: no step of a started solve() waits for ever
SpecSolveFair ==
    /\ SpecSolve
    /\ WF_vars(\E ok \in BOOLEAN : SolveCreate(ok))
    /\ WF_vars(\E f \in ParseFaults : SolveParse(f))
    /\ WF_vars(\E c \in StatusCodes, p \in {0, 1}, f \in SolveFaults : SolveSolve(c, p, f))
    /\ WF_vars(\E f \in FreeFaults : SolveFinally(f))

\* ---- C29 ----
CallsOf(op) == {k \in 1..Len(run.calls) : run.calls[k].op = op}

\* what holds of the calls made so far on the handle of this solve()
SolveDiscipline ==
    /\ ~run.created => run.calls = <<>>
    \* free() at most once, and nothing after it
    /\ Cardinality(CallsOf("free")) <= 1
    /\ \A k \in CallsOf("free") : k = Len(run.calls)
    /\ \A k \in 1..Len(run.calls) : ~run.calls[k].wasFreed
    \* parse before solve, and no solve after a parse that threw
    /\ \A k \in CallsOf("solve") :
          \E j \in CallsOf("parse") : j < k /\ run.calls[j].err = NoError
    /\ \A j \in CallsOf("parse") :
          run.calls[j].err # NoError => \A k \in CallsOf("solve") : k < j
    \* when the promise has settled and a handle was created, free() was called
    /\ (run.settled # "none" /\ run.created) =>
          (Cardinality(CallsOf("free")) = 1 /\ freed)

\* C29: once solve() has created the handle, free() is called exactly once
\* before the promise settles, whether parse and solve succeed or throw, and
\* the promise does settle; parse comes before solve, solve is not called
\* after a parse that threw, and no call is made on the handle after free()
C29_SolveFreesHandle ==
    /\ []SolveDiscipline
    /\ (run.pc = "parse") ~> (run.settled # "none" /\ run.created /\ freed)

\* a second solve() has settled after its solve threw: parse, solve and free
\* were called on its handle, in that order
C29_Witness ==
    /\ run.settled # "none" /\ run.created
    /\ run.solves = 2
    /\ Len(run.calls) = 3
    /\ run.calls[2].op = "solve" /\ run.calls[2].err # NoError
    /\ run.calls[3].op = "free"

====
